---- MODULE Spec2Model ----
(***************************************************************************)
(* A model of the ingestion-and-tagging pipeline of the AI-Gallery         *)
(* backend: the scanner, the archive pre-pass and process_import           *)
(* (services/), the AI worker (workers/ai_processor.py) with the analysis  *)
(* merge of services/ai_engine.py, and the review and management routes    *)
(* (routers/review.py, routers/manage.py).                                 *)
(*                                                                         *)
(* Strings of the program that the code takes apart (file names, paths,    *)
(* recognised text) are sequences of one-character strings, so that        *)
(* lower(), endswith(), replace(), splitext() and slugify() are computed   *)
(* as the code computes them.  A path is a sequence of such names.         *)
(***************************************************************************)
EXTENDS Integers, Sequences, FiniteSets, TLC

VARIABLES
    fs,         \* the filesystem under the import root: a sequence of entries
    albums,     \* table Album: sequence of rows, id = index
    images,     \* table Image: sequence of rows, id = index
    tags,       \* table Tag: sequence of rows, id = index
    links,      \* table ImageTagLink: a set of rows
    ipc,        \* per ingestion run: position in process_import
    ipaths,     \* per ingestion run: image_paths, the scanner's result
    iidx,       \* per ingestion run: index of file_path in image_paths
    istats,     \* per ingestion run: the stats dictionary
    ilog,       \* per ingestion run: what was printed for each file
    isession,   \* per ingestion run: state of the run's Session
    ialbum,     \* per ingestion run: id of the album resolved for file_path
    ibase,      \* per ingestion run: number of Image rows when the run began
    iruns,      \* number of ingestion runs started so far
    wpc,        \* per worker process: position in run_ai_processing_task
    worklist,   \* per worker process: the fetched (id, path) list
    wstart,     \* per worker process: i, the start index of the batch
    wbatch,     \* per worker process: batch_tuples
    wresults,   \* per worker process: batch_results of analyze_batch
    wpos,       \* per worker process: (idx, candidate) position in the save loop
    wtag,       \* per worker process: id of the tag found or created
    wpending,   \* per worker process: uncommitted writes of the batch session
    wthrew,     \* per worker process: what raised while batch_tuples was analysed
    wfailed,    \* per worker process: ids of the batches that ended in "ERROR in batch"
    wruns,      \* number of worker runs started so far
    wexec,      \* worker process, statement by statement: its threads, the model
                \* singletons of ai_engine and its open Sessions
    uploads,    \* the calls of process_uploaded_image served so far: the file
                \* given, the result, and the width and height stored
    nreq,       \* number of tag and review requests served so far
    rresp       \* the last request served with a listing or a review, and its response

ivars == <<ipc, ipaths, iidx, istats, ilog, isession, ialbum, ibase, iruns>>
wvars == <<wpc, worklist, wstart, wbatch, wresults, wpos, wtag, wpending, wthrew,
           wfailed, wruns, wexec>>
rvars == <<nreq, rresp>>
uvars == <<uploads>>
dbvars == <<albums, images, tags, links>>
vars == <<fs, albums, images, tags, links, ipc, ipaths, iidx, istats, ilog,
          isession, ialbum, ibase, iruns, wpc, worklist, wstart, wbatch, wresults,
          wpos, wtag, wpending, wthrew, wfailed, wruns, wexec, uploads, nreq, rresp>>

\* database.py 22-34: the store is one SQLite file in WAL mode, which has
\* one writer at a time.  A session takes the write lock with the first
\* INSERT, UPDATE or DELETE it sends and keeps it until its commit or
\* rollback; the write of another connection waits for the lock.
DatabaseBusy_never(w) == FALSE
DatabaseBusyFor(w) == \E v \in DOMAIN wpending \ {w} : wpending[v].flushed
DatabaseBusy == \E v \in DOMAIN wpending : wpending[v].flushed

----------------------------------------------------------------------------
(* Strings as sequences of characters.                                     *)

UpperChars == <<"A","B","C","D","E","F","G","H","I","J","K","L","M",
                "N","O","P","Q","R","S","T","U","V","W","X","Y","Z">>
LowerChars == <<"a","b","c","d","e","f","g","h","i","j","k","l","m",
                "n","o","p","q","r","s","t","u","v","w","x","y","z">>
DigitChars == <<"0","1","2","3","4","5","6","7","8","9">>

IsUpperChar(c) == \E i \in 1..Len(UpperChars) : UpperChars[i] = c
IsLowerChar(c) == \E i \in 1..Len(LowerChars) : LowerChars[i] = c
IsDigitChar(c) == \E i \in 1..Len(DigitChars) : DigitChars[i] = c

\* str.lower() on one character
LowerChar(c) ==
    IF IsUpperChar(c)
    THEN LowerChars[CHOOSE i \in 1..Len(UpperChars) : UpperChars[i] = c]
    ELSE c

\* str.lower()
Lower(s) == [i \in 1..Len(s) |-> LowerChar(s[i])]

\* str.startswith / str.endswith
StartsWith(s, pre) ==
    /\ Len(pre) <= Len(s)
    /\ SubSeq(s, 1, Len(pre)) = pre

EndsWith(s, suf) ==
    /\ Len(suf) <= Len(s)
    /\ SubSeq(s, Len(s) - Len(suf) + 1, Len(s)) = suf

\* str.replace(old, new): every non-overlapping occurrence, left to right
RECURSIVE Replace(_, _, _)
Replace(s, old, new) ==
    IF Len(s) = 0 THEN <<>>
    ELSE IF StartsWith(s, old)
         THEN new \o Replace(SubSeq(s, Len(old) + 1, Len(s)), old, new)
         ELSE <<s[1]>> \o Replace(Tail(s), old, new)

DotZip == <<".", "z", "i", "p">>
Dot == "."
Sep == "/"

\* os.path.join of the components of a path, as one string
RECURSIVE PathString(_)
PathString(p) ==
    IF Len(p) = 0 THEN <<>>
    ELSE <<Sep>> \o p[1] \o PathString(Tail(p))

\* the components of a path string (empty components dropped, as the
\* operating system resolves "a//b")
RECURSIVE SplitPath(_, _)
SplitPath(s, cur) ==
    IF Len(s) = 0
    THEN (IF Len(cur) = 0 THEN <<>> ELSE <<cur>>)
    ELSE IF s[1] = Sep
         THEN (IF Len(cur) = 0 THEN <<>> ELSE <<cur>>) \o SplitPath(Tail(s), <<>>)
         ELSE SplitPath(Tail(s), Append(cur, s[1]))

\* os.path.splitext(file)[1]: from the last dot, leading dots not counted
SplitExt(name) ==
    LET dots == {i \in 1..Len(name) : name[i] = Dot}
        cand == {i \in dots : \E j \in 1..(i - 1) : name[j] /= Dot}
    IN  IF cand = {} THEN <<>>
        ELSE LET k == CHOOSE i \in cand : \A j \in cand : j <= i
             IN  SubSeq(name, k, Len(name))

IsPrefix(p, q) ==
    /\ Len(p) <= Len(q)
    /\ SubSeq(q, 1, Len(p)) = p

\* os.path.dirname / os.path.basename on a path
DirName(p) == SubSeq(p, 1, Len(p) - 1)
BaseName(p) == p[Len(p)]

----------------------------------------------------------------------------
(* The filesystem: a sequence of entries in directory-listing order.       *)
(* A file carries its bytes (an identifier of the byte content), whether   *)
(* it can be opened for reading, and, when its bytes are a readable zip    *)
(* container, the members of the container.                                *)

FileData(bytes, readable) ==
    [bytes |-> bytes, readable |-> readable, zip |-> FALSE, members |-> <<>>]
ZipData(bytes, members) ==
    [bytes |-> bytes, readable |-> TRUE, zip |-> TRUE, members |-> members]
FileEntry(path, data) == [path |-> path, kind |-> "file", data |-> data]
DirEntry(path) == [path |-> path, kind |-> "dir", data |-> FileData(0, TRUE)]

\* os.path.exists
Exists(f, p) == \E i \in 1..Len(f) : IsPrefix(p, f[i].path)

\* a sequence without its repeated elements, first occurrences kept
RECURSIVE Dedup(_)
Dedup(s) ==
    IF Len(s) = 0 THEN <<>>
    ELSE LET r == Dedup(SubSeq(s, 1, Len(s) - 1))
             x == s[Len(s)]
         IN  IF \E i \in 1..Len(r) : r[i] = x THEN r ELSE Append(r, x)

IsFileIn(e, dir) ==
    /\ e.kind = "file"
    /\ Len(e.path) = Len(dir) + 1
    /\ IsPrefix(dir, e.path)

IsBelowSubdir(e, dir) ==
    /\ IsPrefix(dir, e.path)
    /\ \/ Len(e.path) > Len(dir) + 1
       \/ (Len(e.path) = Len(dir) + 1 /\ e.kind = "dir")

RECURSIVE MapNames(_, _)
MapNames(es, dir) ==
    IF Len(es) = 0 THEN <<>>
    ELSE <<es[1].path[Len(dir) + 1]>> \o MapNames(Tail(es), dir)

\* one step of os.walk: the file names and the directory names of dir
ListFiles(f, dir) == MapNames(SelectSeq(f, LAMBDA e : IsFileIn(e, dir)), dir)
ListDirs(f, dir) ==
    Dedup(MapNames(SelectSeq(f, LAMBDA e : IsBelowSubdir(e, dir)), dir))

FileAt(f, p) == f[CHOOSE i \in 1..Len(f) : f[i].path = p /\ f[i].kind = "file"]

----------------------------------------------------------------------------
(* services/scanner.py                                                     *)

SUPPORTED_EXTENSIONS ==
    { <<".", "j", "p", "g">>, <<".", "j", "p", "e", "g">>,
      <<".", "p", "n", "g">>, <<".", "w", "e", "b", "p">> }

\* a variant of the test that takes no name for hidden
IsHidden_never(name) == FALSE

IsHidden(name) == StartsWith(name, <<Dot>>)

\* the files of one directory that the scanner keeps, as absolute paths
RECURSIVE ScanFiles(_, _)
ScanFiles(dir, names) ==
    IF Len(names) = 0 THEN <<>>
    ELSE LET file == names[1]
             keep == /\ ~IsHidden(file)
                     /\ Lower(SplitExt(file)) \in SUPPORTED_EXTENSIONS
         IN  (IF keep THEN <<Append(dir, file)>> ELSE <<>>)
             \o ScanFiles(dir, Tail(names))

\* os.walk from dir, the hidden directories pruned from dirs
RECURSIVE ScanWalk(_, _)
RECURSIVE ScanDirs(_, _, _)
ScanWalk(f, dir) ==
    ScanFiles(dir, ListFiles(f, dir))
    \o ScanDirs(f, dir, SelectSeq(ListDirs(f, dir), LAMBDA d : ~IsHidden(d)))
ScanDirs(f, dir, names) ==
    IF Len(names) = 0 THEN <<>>
    ELSE ScanWalk(f, Append(dir, names[1])) \o ScanDirs(f, dir, Tail(names))

list_image_files(f, root_path) ==
    IF ~Exists(f, root_path) THEN <<>> ELSE ScanWalk(f, root_path)

----------------------------------------------------------------------------
(* services/ingest.py: the archive pre-pass                                *)

RECURSIVE MemberEntries(_, _)
MemberEntries(target_dir, members) ==
    IF Len(members) = 0 THEN <<>>
    ELSE <<FileEntry(target_dir \o members[1].path, members[1].data)>>
         \o MemberEntries(target_dir, Tail(members))

\* extract_zip_in_place: the filesystem after the call
extract_zip_in_place(f, zip_path) ==
    LET target_dir == SplitPath(Replace(PathString(zip_path), DotZip, <<>>), <<>>)
        data == FileAt(f, zip_path).data
    IN  IF Exists(f, target_dir) THEN f
        ELSE IF data.zip /\ data.readable
             THEN f \o <<DirEntry(target_dir)>> \o MemberEntries(target_dir, data.members)
             ELSE f

\* the body of the loop over files of one directory of the pre-scan walk
RECURSIVE PreScanFiles(_, _, _)
PreScanFiles(f, dir, names) ==
    IF Len(names) = 0 THEN f
    ELSE LET file == names[1]
             f1 == IF EndsWith(Lower(file), DotZip)
                   THEN extract_zip_in_place(f, Append(dir, file))
                   ELSE f
         IN  PreScanFiles(f1, dir, Tail(names))

\* os.walk(root_path) of the pre-scan: the listing of a directory is taken
\* when the walk reaches it, its files are handled, then the directories
\* of that listing are walked
RECURSIVE PreScanWalk(_, _)
RECURSIVE PreScanDirs(_, _, _)
PreScanWalk(f, dir) ==
    LET files == ListFiles(f, dir)
        dirs == ListDirs(f, dir)
    IN  PreScanDirs(PreScanFiles(f, dir, files), dir, dirs)
PreScanDirs(f, dir, names) ==
    IF Len(names) = 0 THEN f
    ELSE PreScanDirs(PreScanWalk(f, Append(dir, names[1])), dir, Tail(names))

----------------------------------------------------------------------------
(* services/image_processor.py and the slug of an album name               *)

\* a variant fingerprint that does not depend on the bytes
Sha256_constant(bytes) == <<"sha256", 0>>

\* calculate_file_hash: the SHA-256 digest is a value fixed by the bytes;
\* open() raises on a file that cannot be read
Sha256(bytes) == <<"sha256", bytes>>
calculate_file_hash(f, file_path) ==
    LET data == FileAt(f, file_path).data
    IN  IF data.readable
        THEN [raised |-> FALSE, hash |-> Sha256(data.bytes)]
        ELSE [raised |-> TRUE, hash |-> <<>>]

\* Image.open: the bytes of a file decide whether Pillow can decode them
CorruptBytes == {9}
Decodable(data) == data.readable /\ ~data.zip /\ data.bytes \notin CorruptBytes

\* f"{file_hash}.jpg" in THUMBNAIL_DIR (ingest.py lines 10, 70-71); the
\* digest is written with its digits
HexDigest(h) ==
    IF h[2] < 10 THEN <<DigitChars[h[2] + 1]>>
    ELSE <<DigitChars[(h[2] \div 10) + 1], DigitChars[(h[2] % 10) + 1]>>
N_data == <<"d", "a", "t", "a">>
N_thumbnails == <<"t", "h", "u", "m", "b", "n", "a", "i", "l", "s">>
THUMBNAIL_DIR == <<N_data, N_thumbnails>>
ThumbPath(h) == Append(THUMBNAIL_DIR, HexDigest(h) \o <<".", "j", "p", "g">>)

\* a variant of generate_thumbnail that lets the exception out
generate_thumbnail_raising(f, source_path, target_path) ==
    IF Decodable(FileAt(f, source_path).data)
    THEN [ok |-> TRUE, raised |-> FALSE,
          f |-> Append(f, FileEntry(target_path, FileData(0, TRUE)))]
    ELSE [ok |-> FALSE, raised |-> TRUE, f |-> f]

\* generate_thumbnail, lines 114-125: the thumbnail is written when the
\* source can be decoded; every Exception is caught and False returned
generate_thumbnail(f, source_path, target_path) ==
    IF Decodable(FileAt(f, source_path).data)
    THEN [ok |-> TRUE, raised |-> FALSE,
          f |-> Append(f, FileEntry(target_path, FileData(0, TRUE)))]
    ELSE [ok |-> FALSE, raised |-> FALSE, f |-> f]

\* slugify(album_name): lower case, every run of characters that are not
\* letters or digits becomes one "-", leading and trailing "-" dropped
Dash == "-"
SlugChar(c) ==
    IF IsUpperChar(c) \/ IsLowerChar(c) \/ IsDigitChar(c) THEN LowerChar(c) ELSE Dash
RECURSIVE SlugCollapse(_)
SlugCollapse(s) ==
    IF Len(s) = 0 THEN <<>>
    ELSE LET r == SlugCollapse(SubSeq(s, 1, Len(s) - 1))
             c == SlugChar(s[Len(s)])
         IN  IF c = Dash /\ (Len(r) = 0 \/ r[Len(r)] = Dash) THEN r ELSE Append(r, c)
slugify(name) ==
    LET r == SlugCollapse(name)
    IN  IF Len(r) > 0 /\ r[Len(r)] = Dash THEN SubSeq(r, 1, Len(r) - 1) ELSE r

----------------------------------------------------------------------------
(* The tables of database.py.  Image.file_hash is indexed but not unique;  *)
(* Album.slug and Tag.name are unique; (image_id, tag_id) is the primary   *)
(* key of ImageTagLink.                                                    *)

AlbumRow(name, slug, root_path) ==
    [name |-> name, slug |-> slug, root_path |-> root_path, is_deleted |-> FALSE]
ImageRow(album_id, path, file_hash) ==
    [album_id |-> album_id, path |-> path, file_hash |-> file_hash,
     is_processed |-> FALSE, is_deleted |-> FALSE]
TagRow(name, category) == [name |-> name, category |-> category]
LinkRow(image_id, tag_id, confidence, source, is_verified) ==
    [image_id |-> image_id, tag_id |-> tag_id, confidence |-> confidence,
     source |-> source, is_verified |-> is_verified]

ImageIds == 1..Len(images)
AlbumIds == 1..Len(albums)
TagIds == 1..Len(tags)

\* variants of the duplicate check: one that finds nothing, one that looks
\* at live Images only
ImagesWithHash_none(h) == {}
ImagesWithHash_live(h) == {i \in ImageIds : images[i].file_hash = h /\ ~images[i].is_deleted}

\* select(Image).where(Image.file_hash == file_hash) ... .first()
ImagesWithHash(h) == {i \in ImageIds : images[i].file_hash = h}
\* a variant of the album lookup that finds nothing
AlbumsWithSlug_none(slug) == {}

\* select(Album).where(Album.slug == album_slug) ... .first()
AlbumsWithSlug(slug) == {a \in AlbumIds : albums[a].slug = slug}
\* a variant of the tag lookup that finds nothing
TagsWithName_none(name) == {}

\* select(Tag).where(Tag.name == tag_name) ... .first()
TagsWithName(name) == {t \in TagIds : tags[t].name = name}
First(S) == CHOOSE x \in S : \A y \in S : x <= y

----------------------------------------------------------------------------
(* services/ingest.py: process_import, one run per session (routers/scan.py *)
(* run_scan_in_background opens a Session for the run).                    *)

IProcs == {"i1", "i2"}
MaxRuns == 2

N_in == <<"i", "n">>
root_path == <<N_in>>

ZeroStats == [added |-> 0, skipped |-> 0, errors |-> 0]

\* lines 38-51: the pre-scan for archives, the scan, stats = {0, 0, 0}
StartImport(p) ==
    /\ ipc[p] \in {"idle", "done"}
    /\ iruns < MaxRuns
    /\ LET f1 == PreScanWalk(fs, root_path)
           image_paths == list_image_files(f1, root_path)
       IN  /\ fs' = f1
           /\ ipaths' = [ipaths EXCEPT ![p] = image_paths]
           /\ ipc' = [ipc EXCEPT ![p] = IF Len(image_paths) = 0 THEN "done" ELSE "file"]
    /\ iidx' = [iidx EXCEPT ![p] = 1]
    /\ istats' = [istats EXCEPT ![p] = ZeroStats]
    /\ ilog' = [ilog EXCEPT ![p] = <<>>]
    /\ isession' = [isession EXCEPT ![p] = "active"]
    /\ ialbum' = [ialbum EXCEPT ![p] = 0]
    /\ ibase' = [ibase EXCEPT ![p] = Len(images)]
    /\ iruns' = iruns + 1
    /\ UNCHANGED <<dbvars, wvars, uvars, rvars>>

\* a variant of the loop that does not count the files that raised
NextFile_uncounted(p, outcome, counter) ==
    /\ istats' = IF counter = "errors" THEN istats
                 ELSE [istats EXCEPT ![p][counter] = @ + 1]
    /\ ilog' = [ilog EXCEPT ![p] = Append(@, outcome)]
    /\ iidx' = [iidx EXCEPT ![p] = @ + 1]
    /\ ipc' = [ipc EXCEPT ![p] = IF iidx[p] + 1 > Len(ipaths[p]) THEN "done" ELSE "file"]

\* the end of one iteration of "for file_path in image_paths": the counter
\* of the outcome goes up, the loop moves on, and after the last file the
\* stats are returned
NextFile(p, outcome, counter) ==
    /\ istats' = [istats EXCEPT ![p][counter] = @ + 1]
    /\ ilog' = [ilog EXCEPT ![p] = Append(@, outcome)]
    /\ iidx' = [iidx EXCEPT ![p] = @ + 1]
    /\ ipc' = [ipc EXCEPT ![p] = IF iidx[p] + 1 > Len(ipaths[p]) THEN "done" ELSE "file"]

\* the except branch of lines 115-118
FileError(p) == NextFile(p, "error", "errors")

\* the duplicate check of lines 59-65, given that an Image has the hash
SkipExisting(p, existing_image) ==
    NextFile(p, IF images[existing_image].is_deleted
                THEN "skip_deleted" ELSE "skip_duplicate", "skipped")

\* lines 55-65: hash the file and look for an Image with that hash.  A
\* Session whose flush failed raises on every later statement until
\* rollback() is called, and process_import never calls it.
CheckDuplicate(p) ==
    /\ ipc[p] = "file"
    /\ LET file_path == ipaths[p][iidx[p]]
           h == calculate_file_hash(fs, file_path)
       IN  IF h.raised \/ isession[p] = "needs_rollback"
           THEN FileError(p)
           ELSE IF ImagesWithHash(h.hash) /= {}
                THEN SkipExisting(p, First(ImagesWithHash(h.hash)))
                ELSE /\ ipc' = [ipc EXCEPT ![p] = "album"]
                     /\ UNCHANGED <<istats, ilog, iidx>>
    /\ UNCHANGED <<fs, dbvars, ipaths, isession, ialbum, ibase, iruns, wvars, uvars, rvars>>

AlbumNameOf(file_path) == BaseName(DirName(file_path))

\* lines 67-85: metadata (extract_metadata catches the exceptions of the
\* decoding), the thumbnail unless its file exists, then the lookup of the
\* album by slug
ResolveAlbum(p) ==
    /\ ipc[p] = "album"
    /\ LET file_path == ipaths[p][iidx[p]]
           thumb_path == ThumbPath(calculate_file_hash(fs, file_path).hash)
           thumb == IF Exists(fs, thumb_path)
                    THEN [ok |-> TRUE, raised |-> FALSE, f |-> fs]
                    ELSE generate_thumbnail(fs, file_path, thumb_path)
           album_slug == slugify(AlbumNameOf(file_path))
           found == AlbumsWithSlug(album_slug)
       IN  IF thumb.raised
           THEN /\ FileError(p)
                /\ UNCHANGED <<fs, ialbum>>
           ELSE /\ fs' = thumb.f
                /\ IF found /= {}
                   THEN /\ ialbum' = [ialbum EXCEPT ![p] = First(found)]
                        /\ ipc' = [ipc EXCEPT ![p] = "save"]
                   ELSE /\ ipc' = [ipc EXCEPT ![p] = "mkalbum"]
                        /\ UNCHANGED ialbum
                /\ UNCHANGED <<iidx, istats, ilog>>
    /\ UNCHANGED <<dbvars, ipaths, isession, ibase, iruns, wvars, uvars, rvars>>

\* lines 86-94: session.add(album); session.commit().  The unique index on
\* Album.slug makes the INSERT fail when a row with the slug was committed
\* since the lookup; the exception leaves the Session needing a rollback.
CreateAlbum(p) ==
    /\ ipc[p] = "mkalbum"
    /\ ~DatabaseBusy
    /\ LET file_path == ipaths[p][iidx[p]]
           album_name == AlbumNameOf(file_path)
           album_slug == slugify(album_name)
       IN  IF AlbumsWithSlug(album_slug) /= {}
           THEN /\ FileError(p)
                /\ isession' = [isession EXCEPT ![p] = "needs_rollback"]
                /\ UNCHANGED <<albums, ialbum>>
           ELSE /\ albums' = Append(albums, AlbumRow(album_name, album_slug, DirName(file_path)))
                /\ ialbum' = [ialbum EXCEPT ![p] = Len(albums) + 1]
                /\ ipc' = [ipc EXCEPT ![p] = "save"]
                /\ UNCHANGED <<istats, ilog, iidx, isession>>
    /\ UNCHANGED <<fs, images, tags, links, ipaths, ibase, iruns, wvars, uvars, rvars>>

\* lines 96-113: the Image row, committed; stats["added"] += 1
SaveImage(p) ==
    /\ ipc[p] = "save"
    /\ ~DatabaseBusy
    /\ LET file_path == ipaths[p][iidx[p]]
           file_hash == calculate_file_hash(fs, file_path).hash
       IN  images' = Append(images, ImageRow(ialbum[p], file_path, file_hash))
    /\ NextFile(p, "added", "added")
    /\ UNCHANGED <<fs, albums, tags, links, ipaths, isession, ialbum, ibase, iruns, wvars, uvars, rvars>>

----------------------------------------------------------------------------
(* routers/manage.py: soft deletion                                        *)

\* a variant of the deletion that also blanks the fingerprint of the row
delete_images_batch_wipe(image_ids) ==
    /\ image_ids /= {}
    /\ (\E i \in image_ids \cap ImageIds : ~images[i].is_deleted) => ~DatabaseBusy
    /\ images' = [i \in ImageIds |->
                    IF i \in image_ids
                    THEN [images[i] EXCEPT !.is_deleted = TRUE, !.file_hash = <<"sha256", 0>>]
                    ELSE images[i]]
    /\ UNCHANGED <<fs, albums, tags, links, ivars, wvars, uvars, rvars>>

\* delete_images_batch: is_deleted = True on every Image whose id is listed
delete_images_batch(image_ids) ==
    /\ image_ids /= {}
    /\ (\E i \in image_ids \cap ImageIds : ~images[i].is_deleted) => ~DatabaseBusy
    /\ images' = [i \in ImageIds |->
                    IF i \in image_ids THEN [images[i] EXCEPT !.is_deleted = TRUE]
                    ELSE images[i]]
    /\ UNCHANGED <<fs, albums, tags, links, ivars, wvars, uvars, rvars>>

\* delete_album: is_deleted = True on the Album and, with cascade, on every
\* Image of the album
delete_album(album_id, cascade) ==
    /\ album_id \in AlbumIds
    /\ (\/ ~albums[album_id].is_deleted
        \/ cascade /\ \E i \in ImageIds :
                         images[i].album_id = album_id /\ ~images[i].is_deleted)
       => ~DatabaseBusy
    /\ albums' = [albums EXCEPT ![album_id].is_deleted = TRUE]
    /\ images' = [i \in ImageIds |->
                    IF cascade /\ images[i].album_id = album_id
                    THEN [images[i] EXCEPT !.is_deleted = TRUE]
                    ELSE images[i]]
    /\ UNCHANGED <<fs, tags, links, ivars, wvars, uvars, rvars>>

----------------------------------------------------------------------------
(* The import roots the runs are given.                                    *)

N_Trip == <<"T", "r", "i", "p">>
N_trip == <<"t", "r", "i", "p">>
N_a_jpg == <<"a", ".", "j", "p", "g">>
N_b_png == <<"b", ".", "p", "n", "g">>
N_c_JPG == <<"c", ".", "J", "P", "G">>
N_d_jpg == <<"d", ".", "j", "p", "g">>
N_e_webp == <<"e", ".", "w", "e", "b", "p">>
N_u_jpg == <<"u", ".", "j", "p", "g">>
N_b_jpeg == <<"b", ".", "j", "p", "e", "g">>
N_hidden_jpg == <<".", "h", ".", "j", "p", "g">>
N_n_txt == <<"n", ".", "t", "x", "t">>
N_p_zip == <<"p", ".", "z", "i", "p">>
N_q_zip == <<"q", ".", "z", "i", "p">>
N_B_ZIP == <<"B", ".", "Z", "I", "P">>
N_f_jpg == <<"f", ".", "j", "p", "g">>
N_x_jpg == <<"x", ".", "j", "p", "g">>
N_y_jpg == <<"y", ".", "j", "p", "g">>
N_z_jpg == <<"z", ".", "j", "p", "g">>

\* one directory: three distinct images and an exact duplicate of one
LayoutDuplicates ==
    << FileEntry(<<N_in, N_Trip, N_a_jpg>>, FileData(1, TRUE)),
       FileEntry(<<N_in, N_Trip, N_b_png>>, FileData(2, TRUE)),
       FileEntry(<<N_in, N_Trip, N_c_JPG>>, FileData(3, TRUE)),
       FileEntry(<<N_in, N_Trip, N_d_jpg>>, FileData(1, TRUE)) >>

\* two directories whose names give one slug, a file that cannot be read,
\* a hidden file, a file that is no image, a duplicate across directories
LayoutMixed ==
    << FileEntry(<<N_in, N_e_webp>>, FileData(1, TRUE)),
       FileEntry(<<N_in, N_Trip, N_a_jpg>>, FileData(2, TRUE)),
       FileEntry(<<N_in, N_Trip, N_u_jpg>>, FileData(3, FALSE)),
       FileEntry(<<N_in, N_trip, N_b_jpeg>>, FileData(1, TRUE)),
       FileEntry(<<N_in, N_trip, N_c_JPG>>, FileData(4, TRUE)),
       FileEntry(<<N_in, N_trip, N_hidden_jpg>>, FileData(5, TRUE)),
       FileEntry(<<N_in, N_trip, N_n_txt>>, FileData(6, TRUE)) >>

\* archives: one that holds an image and a further archive, one whose
\* extension is upper case, beside an image
LayoutArchives ==
    << FileEntry(<<N_in, N_p_zip>>,
                 ZipData(10, << [path |-> <<N_x_jpg>>, data |-> FileData(5, TRUE)],
                                [path |-> <<N_q_zip>>,
                                 data |-> ZipData(11, << [path |-> <<N_y_jpg>>,
                                                          data |-> FileData(6, TRUE)] >>)] >>)),
       FileEntry(<<N_in, N_B_ZIP>>,
                 ZipData(12, << [path |-> <<N_z_jpg>>, data |-> FileData(7, TRUE)] >>)),
       FileEntry(<<N_in, N_f_jpg>>, FileData(5, TRUE)) >>

\* one directory with a picture and a file that Pillow cannot decode
N_g_jpg == <<"g", ".", "j", "p", "g">>
LayoutCorrupt ==
    << FileEntry(<<N_in, N_Trip, N_a_jpg>>, FileData(1, TRUE)),
       FileEntry(<<N_in, N_Trip, N_g_jpg>>, FileData(9, TRUE)),
       FileEntry(<<N_in, N_Trip, N_b_png>>, FileData(2, TRUE)) >>

Layouts == {LayoutDuplicates, LayoutMixed, LayoutArchives, LayoutCorrupt}

----------------------------------------------------------------------------
(* services/ai_engine.py.  Confidences are in hundredths (0.90 is 90).     *)
(* What the models see in a picture is fixed by the bytes of its file:     *)
(* the classifier's probability for each label of the configuration (a     *)
(* softmax row, so it sums to 100) and the text fragments the recognizer   *)
(* reads.                                                                  *)

T_car == <<"c", "a", "r">>
T_dog == <<"d", "o", "g">>
T_STOP == <<"S", "T", "O", "P">>
T_sky == <<"s", "k", "y">>
T_7 == <<"7">>
T_42_spaced == <<" ", "4", "2", " ">>
T_ab == <<"a", "b">>
T_0 == <<"0">>
T_1000 == <<"1", "0", "0", "0">>
T_OK == <<"O", "K">>
T_Stop == <<"S", "t", "o", "p">>

\* config["clip"]["labels"], config["clip"]["confidence_threshold"],
\* config["ocr"]["enabled"]
ClipLabels == <<T_car, T_dog, T_STOP, T_sky>>
ClipThreshold == 25
OcrEnabled == TRUE

SceneTable ==
    << [probs |-> <<50, 20, 15, 15>>, texts |-> <<T_0, T_OK>>],
       [probs |-> <<25, 25, 25, 25>>, texts |-> <<T_1000, T_Stop>>],
       [probs |-> <<10, 5, 60, 25>>,  texts |-> <<T_STOP, T_7>>],
       [probs |-> <<29, 40, 21, 10>>, texts |-> <<T_42_spaced, T_ab>>] >>
NumScenes == Len(SceneTable)

\* load_pil_image: None when the file is missing, cannot be read or
\* cannot be decoded
CanLoad(f, path) ==
    /\ \E i \in 1..Len(f) : f[i].path = path /\ f[i].kind = "file"
    /\ Decodable(FileAt(f, path).data)
SceneIndex(f, path) == ((FileAt(f, path).data.bytes - 1) % NumScenes) + 1
SceneOf(f, path) == SceneTable[SceneIndex(f, path)]

Candidate(name, confidence, source, category) ==
    [name |-> name, confidence |-> confidence, source |-> source, category |-> category]

\* list.sort(key=confidence, reverse=True): stable, descending
RECURSIVE InsertDesc(_, _)
InsertDesc(sorted, c) ==
    IF Len(sorted) = 0 THEN <<c>>
    ELSE IF sorted[1].confidence >= c.confidence
         THEN <<sorted[1]>> \o InsertDesc(Tail(sorted), c)
         ELSE <<c>> \o sorted
RECURSIVE SortDesc(_)
SortDesc(cs) ==
    IF Len(cs) = 0 THEN <<>>
    ELSE InsertDesc(SortDesc(SubSeq(cs, 1, Len(cs) - 1)), cs[Len(cs)])

\* a variant that also keeps a label whose score equals the threshold
RECURSIVE ClipCandidates_atleast(_, _)
ClipCandidates_atleast(probs, label_idx) ==
    IF label_idx > Len(probs) THEN <<>>
    ELSE (IF probs[label_idx] >= ClipThreshold
          THEN <<Candidate(ClipLabels[label_idx], probs[label_idx], "ai_clip", "auto_classified")>>
          ELSE <<>>)
         \o ClipCandidates_atleast(probs, label_idx + 1)

\* lines 109-120: the labels of one image whose score is above the threshold
RECURSIVE ClipCandidates(_, _)
ClipCandidates(probs, label_idx) ==
    IF label_idx > Len(probs) THEN <<>>
    ELSE (IF probs[label_idx] > ClipThreshold
          THEN <<Candidate(ClipLabels[label_idx], probs[label_idx], "ai_clip", "auto_classified")>>
          ELSE <<>>)
         \o ClipCandidates(probs, label_idx + 1)

\* lines 109-123 for each scene: the candidates, sorted by confidence
ClipResults == [b \in 1..NumScenes |-> SortDesc(ClipCandidates(SceneTable[b].probs, 1))]

\* analyze_batch_semantics: an exception of the model is caught inside and
\* the prepared empty results are returned
analyze_batch_semantics(f, image_paths, clip_raises) ==
    [i \in 1..Len(image_paths) |->
        IF clip_raises \/ ~CanLoad(f, image_paths[i]) THEN <<>>
        ELSE ClipResults[SceneIndex(f, image_paths[i])]]

\* str.strip(), str.isdigit(), int(), str.isupper()
IsSpace(c) == c = " "
RECURSIVE LStrip(_)
LStrip(s) == IF Len(s) > 0 /\ IsSpace(s[1]) THEN LStrip(Tail(s)) ELSE s
RECURSIVE RStrip(_)
RStrip(s) ==
    IF Len(s) > 0 /\ IsSpace(s[Len(s)]) THEN RStrip(SubSeq(s, 1, Len(s) - 1)) ELSE s
Strip(s) == RStrip(LStrip(s))
IsDigit(s) == Len(s) > 0 /\ \A i \in 1..Len(s) : IsDigitChar(s[i])
DigitValue(c) == (CHOOSE i \in 1..Len(DigitChars) : DigitChars[i] = c) - 1
RECURSIVE IntOf(_)
IntOf(s) ==
    IF Len(s) = 0 THEN 0
    ELSE 10 * IntOf(SubSeq(s, 1, Len(s) - 1)) + DigitValue(s[Len(s)])
IsUpper(s) ==
    /\ \E i \in 1..Len(s) : IsUpperChar(s[i])
    /\ \A i \in 1..Len(s) : ~IsLowerChar(s[i])

\* a variant that takes every run of digits for a number
RECURSIVE TextCandidates_anynumber(_)
TextCandidates_anynumber(texts) ==
    IF Len(texts) = 0 THEN <<>>
    ELSE LET clean_text == Strip(texts[1])
             here == IF IsDigit(clean_text)
                     THEN <<Candidate(clean_text, 90, "ai_ocr", "number")>>
                     ELSE IF Len(clean_text) > 3 /\ IsUpper(clean_text)
                          THEN <<Candidate(clean_text, 80, "ai_ocr", "text")>>
                          ELSE <<>>
         IN  here \o TextCandidates_anynumber(Tail(texts))

\* lines 145-160: the candidates from the fragments read in one image
RECURSIVE TextCandidates(_)
TextCandidates(texts) ==
    IF Len(texts) = 0 THEN <<>>
    ELSE LET clean_text == Strip(texts[1])
             here == IF IsDigit(clean_text) /\ 1 <= IntOf(clean_text) /\ IntOf(clean_text) <= 999
                     THEN <<Candidate(clean_text, 90, "ai_ocr", "number")>>
                     ELSE IF Len(clean_text) > 3 /\ IsUpper(clean_text)
                          THEN <<Candidate(clean_text, 80, "ai_ocr", "text")>>
                          ELSE <<>>
         IN  here \o TextCandidates(Tail(texts))

\* lines 145-160 for each scene
TextResults == [b \in 1..NumScenes |-> TextCandidates(SceneTable[b].texts)]

\* analyze_image_text: an exception of the reader is caught inside and the
\* results collected so far (none: readtext is the first call) are returned
analyze_image_text(f, image_path, ocr_raises) ==
    IF ~OcrEnabled THEN <<>>
    ELSE IF ocr_raises \/ ~CanLoad(f, image_path) THEN <<>>
         ELSE TextResults[SceneIndex(f, image_path)]

\* analyze_batch, lines 196-202: per image, the classifier's results and
\* then the recognizer's
analyze_batch(f, image_paths, clip_raises, ocr_raises) ==
    LET clip_results == analyze_batch_semantics(f, image_paths, clip_raises)
        ocr_results == [i \in 1..Len(image_paths) |->
                          analyze_image_text(f, image_paths[i], i \in ocr_raises)]
    IN  [i \in 1..Len(image_paths) |-> clip_results[i] \o ocr_results[i]]

----------------------------------------------------------------------------
(* workers/ai_processor.py: run_ai_processing_task.                        *)
(*                                                                         *)
(* The writes of the batch session (session.add) stay uncommitted until    *)
(* the next session.commit(): the one after a Tag is created (line 80),    *)
(* which commits everything added so far, or the one that ends the batch   *)
(* (line 104).  A commit flushes the added links; the primary key of       *)
(* ImageTagLink and the unique index on Tag.name make it raise when a row  *)
(* with the key was committed by someone else in the meantime.  An         *)
(* exception anywhere in the try block ends the batch: the session is      *)
(* closed, its uncommitted writes are rolled back.                         *)

WProcs == {"w1", "w2"}
MaxWorkerRuns == 2

\* BATCH_SIZE of line 21 is 8; the model runs the loop with a smaller
\* batch so that a run over a few images has more than one batch
BATCH_SIZE == 2

\* the batch session before it has added anything; flushed tells whether
\* the session has sent writes to the database that it has not committed
NoPending == [links |-> {}, processed |-> {}, flushed |-> FALSE]
Dirty(pending) == pending.links /= {} \/ pending.processed /= {}
NoThrow == [init |-> FALSE, clip |-> FALSE, ocr |-> {}]

Min(a, b) == IF a <= b THEN a ELSE b
SeqIds(tuples) == {tuples[i].id : i \in 1..Len(tuples)}

\* a variant of the fetch without the where clause
FetchWorklist_all(n) == [i \in 1..n |-> [id |-> i, path |-> images[i].path]]

\* lines 23-31: select(Image.id, Image.path).where(Image.is_processed == False)
UnprocessedIds == {i \in ImageIds : ~images[i].is_processed}
RECURSIVE FetchWorklist(_)
FetchWorklist(n) ==
    IF n = 0 THEN <<>>
    ELSE FetchWorklist(n - 1)
         \o (IF n \in UnprocessedIds THEN <<[id |-> n, path |-> images[n].path]>> ELSE <<>>)

\* variants without the key, and without the worker's look for a link
LinkKeyTaken_never(committed, image_id, tag_id) == FALSE
existing_link_never(w, image_id, tag_id) == FALSE

\* the unique key of ImageTagLink (database.py lines 56-57): a link whose
\* (image_id, tag_id) is the key of a committed row cannot be inserted
LinkKeyTaken(committed, image_id, tag_id) ==
    \E l \in committed : l.image_id = image_id /\ l.tag_id = tag_id

\* the flush of a commit: which of the added links hit a committed key
FlushConflict(pending) ==
    \E l \in pending.links : LinkKeyTaken(links, l.image_id, l.tag_id)

\* the unique index of Tag.name (database.py line 122)
TagNameTaken(name) == TagsWithName(name) /= {}

\* a variant of the look for a link that sees committed rows only
existing_link_committed(w, image_id, tag_id) == LinkKeyTaken(links, image_id, tag_id)

\* lines 85-89: the batch session's view of ImageTagLink, its own flushed
\* rows included
existing_link(w, image_id, tag_id) ==
    LinkKeyTaken(links \cup wpending[w].links, image_id, tag_id)

\* a variant that adds the candidate's link as a verified one
LinksAfterCandidate_verified(w, image_id, tag_id, tag_item) ==
    wpending[w].links \cup {LinkRow(image_id, tag_id, 100, tag_item.source, TRUE)}

\* a variant that adds no link
LinksAfterCandidate_none(w, image_id, tag_id, tag_item) == wpending[w].links

\* lines 91-99: the link added for a candidate unless one exists
LinksAfterCandidate(w, image_id, tag_id, tag_item) ==
    IF existing_link(w, image_id, tag_id)
    THEN wpending[w].links
    ELSE wpending[w].links
         \cup {LinkRow(image_id, tag_id, tag_item.confidence, tag_item.source, FALSE)}

\* a variant of the save loop that sets is_processed = True on an image
\* before it handles the image's candidates
RECURSIVE Settle_early(_, _, _, _, _)
Settle_early(batch, results, idx, k, processed) ==
    IF idx > Len(batch)
    THEN [pc |-> "commit", pos |-> <<idx, 1>>, processed |-> processed]
    ELSE IF k > Len(results[idx])
         THEN Settle_early(batch, results, idx + 1, 1, processed \cup {batch[idx].id})
         ELSE [pc |-> "save", pos |-> <<idx, k>>,
               processed |-> processed \cup {batch[idx].id}]

\* the save loop up to its next statement that reads or writes a table:
\* an image whose candidates are all handled (or that has none, lines
\* 64-67) gets is_processed = True (lines 101-102), and after the last
\* image comes the commit of line 104
RECURSIVE Settle(_, _, _, _, _)
Settle(batch, results, idx, k, processed) ==
    IF idx > Len(batch)
    THEN [pc |-> "commit", pos |-> <<idx, 1>>, processed |-> processed]
    ELSE IF k > Len(results[idx])
         THEN Settle(batch, results, idx + 1, 1, processed \cup {batch[idx].id})
         ELSE [pc |-> "save", pos |-> <<idx, k>>, processed |-> processed]

\* a variant commit that loses the is_processed flags
ImagesAfterCommit_none(pending) == images

\* the rows of the tables after a successful commit of the batch session
ImagesAfterCommit(pending) ==
    [i \in ImageIds |->
        IF i \in pending.processed THEN [images[i] EXCEPT !.is_processed = TRUE]
        ELSE images[i]]
LinksAfterCommit(pending) == links \cup pending.links

\* lines 16-37: the fetch; a run with nothing to do returns
Fetch(w) ==
    /\ wpc[w] \in {"idle", "done"}
    /\ wruns < MaxWorkerRuns
    /\ wruns' = wruns + 1
    /\ UNCHANGED <<wexec, uvars>>
    /\ LET wl == FetchWorklist(Len(images))
       IN  /\ worklist' = [worklist EXCEPT ![w] = wl]
           /\ wpc' = [wpc EXCEPT ![w] = IF Len(wl) = 0 THEN "done" ELSE "analyze"]
    /\ wstart' = [wstart EXCEPT ![w] = 0]
    /\ wbatch' = [wbatch EXCEPT ![w] = <<>>]
    /\ wresults' = [wresults EXCEPT ![w] = <<>>]
    /\ wpos' = [wpos EXCEPT ![w] = <<1, 1>>]
    /\ wtag' = [wtag EXCEPT ![w] = 0]
    /\ wpending' = [wpending EXCEPT ![w] = NoPending]
    /\ wthrew' = [wthrew EXCEPT ![w] = NoThrow]
    /\ wfailed' = [wfailed EXCEPT ![w] = {}]
    /\ UNCHANGED <<fs, dbvars, ivars, rvars>>

\* the loop of line 40 moves to the next batch, or the run ends
NextBatch(w) ==
    /\ wstart' = [wstart EXCEPT ![w] = @ + BATCH_SIZE]
    /\ wpc' = [wpc EXCEPT ![w] =
                 IF wstart[w] + BATCH_SIZE >= Len(worklist[w]) THEN "done" ELSE "analyze"]
    /\ wpos' = [wpos EXCEPT ![w] = <<1, 1>>]
    /\ wtag' = [wtag EXCEPT ![w] = 0]
    /\ wpending' = [wpending EXCEPT ![w] = NoPending]

\* a variant in which the exception of a batch ends the run
FailBatch_abort(w, batch) ==
    /\ wfailed' = [wfailed EXCEPT ![w] = @ \cup SeqIds(batch)]
    /\ wstart' = [wstart EXCEPT ![w] = @ + BATCH_SIZE]
    /\ wpc' = [wpc EXCEPT ![w] = "done"]
    /\ wpos' = [wpos EXCEPT ![w] = <<1, 1>>]
    /\ wtag' = [wtag EXCEPT ![w] = 0]
    /\ wpending' = [wpending EXCEPT ![w] = NoPending]

\* the except branch of lines 106-109
FailBatch(w, batch) ==
    /\ wfailed' = [wfailed EXCEPT ![w] = @ \cup SeqIds(batch)]
    /\ NextBatch(w)

\* lines 41-56: the batch is cut from the worklist and analysed.  The
\* classifier and the recognizer catch their own exceptions; only the
\* construction of the recognizer (ai_engine.py line 189) raises into the
\* worker.  Then the batch session is opened and the loop starts.
Analyze(w) ==
    /\ wpc[w] = "analyze"
    /\ LET batch == SubSeq(worklist[w], wstart[w] + 1,
                           Min(wstart[w] + BATCH_SIZE, Len(worklist[w])))
           image_paths == [i \in 1..Len(batch) |-> batch[i].path]
       IN  /\ wbatch' = [wbatch EXCEPT ![w] = batch]
           /\ \E init \in BOOLEAN, clip \in BOOLEAN, ocr \in {{}, 1..Len(batch)} :
                /\ init => (~clip /\ ocr = {})
                /\ wthrew' = [wthrew EXCEPT ![w] = [init |-> init, clip |-> clip, ocr |-> ocr]]
                /\ IF init
                   THEN /\ FailBatch(w, batch)
                        /\ wresults' = [wresults EXCEPT ![w] = <<>>]
                   ELSE LET results == analyze_batch(fs, image_paths, clip, ocr)
                            at == Settle(batch, results, 1, 1, {})
                        IN  /\ wresults' = [wresults EXCEPT ![w] = results]
                            /\ wpc' = [wpc EXCEPT ![w] = at.pc]
                            /\ wpos' = [wpos EXCEPT ![w] = at.pos]
                            /\ wpending' = [wpending EXCEPT ![w] =
                                              [links |-> {}, processed |-> at.processed,
                                               flushed |-> FALSE]]
                            /\ wtag' = [wtag EXCEPT ![w] = 0]
                            /\ UNCHANGED <<wstart, wfailed>>
    /\ UNCHANGED <<fs, dbvars, ivars, rvars, worklist, wruns, wexec, uvars>>

\* after a candidate is handled: the added link, then on through the loop
AfterCandidate(w, new_links) ==
    LET at == Settle(wbatch[w], wresults[w], wpos[w][1], wpos[w][2] + 1,
                     wpending[w].processed)
    IN  /\ wpc' = [wpc EXCEPT ![w] = at.pc]
        /\ wpos' = [wpos EXCEPT ![w] = at.pos]
        /\ wpending' = [wpending EXCEPT ![w] =
                           [links |-> new_links, processed |-> at.processed,
                            flushed |-> Dirty(wpending[w])]]

\* lines 69-77 and, when the Tag exists, 83-99.  A query of the session
\* first flushes the links added so far (autoflush), which raises on a key
\* committed in the meantime.
FindTag(w) ==
    /\ wpc[w] = "save"
    /\ Dirty(wpending[w]) => ~DatabaseBusyFor(w)
    /\ LET img_id == wbatch[w][wpos[w][1]].id
           tag_item == wresults[w][wpos[w][1]][wpos[w][2]]
           found == TagsWithName(tag_item.name)
       IN  IF FlushConflict(wpending[w])
           THEN /\ FailBatch(w, wbatch[w])
           ELSE /\ IF found /= {}
                   THEN /\ UNCHANGED wtag
                        /\ AfterCandidate(w, LinksAfterCandidate(w, img_id, First(found),
                                                                 tag_item))
                   ELSE /\ wpc' = [wpc EXCEPT ![w] = "mktag"]
                        /\ wpending' = [wpending EXCEPT ![w].flushed = Dirty(wpending[w])]
                        /\ UNCHANGED <<wtag, wpos>>
                /\ UNCHANGED <<wstart, wfailed>>
    /\ UNCHANGED <<fs, dbvars, ivars, rvars, worklist, wbatch, wresults, wthrew, wruns, wexec, uvars>>

\* lines 78-81: session.add(tag); session.commit()
CreateTag(w) ==
    /\ wpc[w] = "mktag"
    /\ ~DatabaseBusyFor(w)
    /\ LET tag_item == wresults[w][wpos[w][1]][wpos[w][2]]
       IN  IF TagNameTaken(tag_item.name) \/ FlushConflict(wpending[w])
           THEN /\ FailBatch(w, wbatch[w])
                /\ UNCHANGED <<dbvars>>
           ELSE /\ tags' = Append(tags, TagRow(tag_item.name, tag_item.category))
                /\ links' = LinksAfterCommit(wpending[w])
                /\ images' = ImagesAfterCommit(wpending[w])
                /\ wtag' = [wtag EXCEPT ![w] = Len(tags) + 1]
                /\ wpending' = [wpending EXCEPT ![w] = NoPending]
                /\ wpc' = [wpc EXCEPT ![w] = "link"]
                /\ UNCHANGED <<albums, wstart, wpos, wfailed>>
    /\ UNCHANGED <<fs, ivars, rvars, worklist, wbatch, wresults, wthrew, wruns, wexec, uvars>>

\* lines 83-99 for the Tag just created
FindLink(w) ==
    /\ wpc[w] = "link"
    /\ Dirty(wpending[w]) => ~DatabaseBusyFor(w)
    /\ LET img_id == wbatch[w][wpos[w][1]].id
           tag_item == wresults[w][wpos[w][1]][wpos[w][2]]
       IN  IF FlushConflict(wpending[w])
           THEN FailBatch(w, wbatch[w])
           ELSE /\ AfterCandidate(w, LinksAfterCandidate(w, img_id, wtag[w], tag_item))
                /\ wtag' = [wtag EXCEPT ![w] = 0]
                /\ UNCHANGED <<wstart, wfailed>>
    /\ UNCHANGED <<fs, dbvars, ivars, rvars, worklist, wbatch, wresults, wthrew, wruns, wexec, uvars>>

\* line 104: session.commit() of the batch
CommitBatch(w) ==
    /\ wpc[w] = "commit"
    /\ Dirty(wpending[w]) => ~DatabaseBusyFor(w)
    /\ IF FlushConflict(wpending[w])
       THEN /\ FailBatch(w, wbatch[w])
            /\ UNCHANGED <<dbvars>>
       ELSE /\ links' = LinksAfterCommit(wpending[w])
            /\ images' = ImagesAfterCommit(wpending[w])
            /\ NextBatch(w)
            /\ UNCHANGED <<albums, tags, wfailed>>
    /\ UNCHANGED <<fs, ivars, rvars, worklist, wbatch, wresults, wthrew, wruns, wexec, uvars>>

----------------------------------------------------------------------------
(* routers/manage.py and routers/review.py: the requests on tags.  Each    *)
(* request runs in a Session of its own.                                   *)

MaxRequests == 2
ManualNames == {T_car, T_STOP}

LinkOf(image_id, tag_id) ==
    CHOOSE l \in links : l.image_id = image_id /\ l.tag_id = tag_id

NoResponse == [request |-> <<>>, status |-> 0, items |-> {}]
Response(request, status, items) ==
    [request |-> request, status |-> status, items |-> items]

Served == nreq' = nreq + 1 /\ UNCHANGED rresp

\* add_image_tag: find or create the Tag, then the link unless it exists
add_image_tag(image_id, tag_name) ==
    /\ nreq < MaxRequests
    /\ image_id \in ImageIds
    /\ LET found == TagsWithName(tag_name)
           tag_id == IF found /= {} THEN First(found) ELSE Len(tags) + 1
       IN  /\ (found = {} \/ ~LinkKeyTaken(links, image_id, tag_id)) => ~DatabaseBusy
           /\ tags' = IF found /= {} THEN tags ELSE Append(tags, TagRow(tag_name, "manual"))
           /\ links' = IF LinkKeyTaken(links, image_id, tag_id) THEN links
                       ELSE links \cup {LinkRow(image_id, tag_id, 100, "manual", TRUE)}
    /\ Served
    /\ UNCHANGED <<fs, albums, images, ivars, wvars, uvars>>

\* remove_image_tag: the link is deleted
remove_image_tag(image_id, tag_id) ==
    /\ nreq < MaxRequests
    /\ LinkKeyTaken(links, image_id, tag_id)
    /\ ~DatabaseBusy
    /\ links' = links \ {LinkOf(image_id, tag_id)}
    /\ Served
    /\ UNCHANGED <<fs, albums, images, tags, ivars, wvars, uvars>>

\* variants of the handler: an approve that keeps the model's confidence,
\* a reject that removes every link of the image, a handler that commits
\* before it looks at the action, and one that turns away verified links
review_tag_result_keeps(image_id, tag_id, action) ==
    IF action = "approve" /\ LinkKeyTaken(links, image_id, tag_id)
    THEN [status |-> 200,
          links |-> (links \ {LinkOf(image_id, tag_id)})
                    \cup {[LinkOf(image_id, tag_id) EXCEPT !.is_verified = TRUE]}]
    ELSE [status |-> 404, links |-> links]
review_tag_result_sweeps(image_id, tag_id, action) ==
    IF action = "reject" /\ LinkKeyTaken(links, image_id, tag_id)
    THEN [status |-> 200, links |-> {l \in links : l.image_id /= image_id}]
    ELSE [status |-> 404, links |-> links]
review_tag_result_lenient(image_id, tag_id, action) ==
    IF ~LinkKeyTaken(links, image_id, tag_id)
    THEN [status |-> 404, links |-> links]
    ELSE [status |-> IF action \in {"approve", "reject"} THEN 200 ELSE 400,
          links |-> links \ {LinkOf(image_id, tag_id)}]

\* a variant whose approval sets the flag and leaves the confidence
review_tag_result_flagonly(image_id, tag_id, action) ==
    IF ~LinkKeyTaken(links, image_id, tag_id)
    THEN [status |-> 404, links |-> links]
    ELSE LET link == LinkOf(image_id, tag_id)
         IN  IF action = "approve"
             THEN [status |-> 200,
                   links |-> (links \ {link}) \cup {[link EXCEPT !.is_verified = TRUE]}]
             ELSE IF action = "reject"
                  THEN [status |-> 200, links |-> links \ {link}]
                  ELSE [status |-> 400, links |-> links]

\* review_tag, lines 69-87: 404 when the pair has no link, approve (lines
\* 78-81), reject (82-83), 400 on any other action, raised before the
\* commit; the status of the response and the links after the request
review_tag_result(image_id, tag_id, action) ==
    IF ~LinkKeyTaken(links, image_id, tag_id)
    THEN [status |-> 404, links |-> links]
    ELSE LET link == LinkOf(image_id, tag_id)
         IN  IF action = "approve"
             THEN [status |-> 200,
                   links |-> (links \ {link})
                             \cup {[link EXCEPT !.is_verified = TRUE, !.confidence = 100]}]
             ELSE IF action = "reject"
                  THEN [status |-> 200, links |-> links \ {link}]
                  ELSE [status |-> 400, links |-> links]

review_tag(image_id, tag_id, action) ==
    /\ nreq < MaxRequests
    /\ review_tag_result(image_id, tag_id, action).links /= links => ~DatabaseBusy
    /\ links' = review_tag_result(image_id, tag_id, action).links
    /\ rresp' = Response(<<"review_tag", image_id, tag_id, action>>,
                         review_tag_result(image_id, tag_id, action).status, {})
    /\ nreq' = nreq + 1
    /\ UNCHANGED <<fs, albums, images, tags, ivars, wvars, uvars>>

\* get_review_items, lines 29-52: the unverified links of live images with
\* a confidence strictly between 0.30 and 0.90, at most limit of them (the
\* statement has no ORDER BY: which ones is up to the database)
ReviewLimits == {1, 2, 20}

\* variants of the selection: bounds that include 0.30 and 0.90, and the
\* bounds 0.4 and 0.85 of the comment of line 28
ReviewRows_inclusive ==
    {l \in links : /\ ~l.is_verified
                   /\ l.confidence <= 90
                   /\ l.confidence >= 30
                   /\ ~images[l.image_id].is_deleted}
ReviewRows_narrow ==
    {l \in links : /\ ~l.is_verified
                   /\ l.confidence < 85
                   /\ l.confidence > 40
                   /\ ~images[l.image_id].is_deleted}

ReviewRows ==
    {l \in links : /\ ~l.is_verified
                   /\ l.confidence < 90
                   /\ l.confidence > 30
                   /\ ~images[l.image_id].is_deleted}
ReviewItem(l) ==
    [image_id |-> l.image_id, tag_id |-> l.tag_id,
     image_hash |-> images[l.image_id].file_hash,
     tag_name |-> tags[l.tag_id].name, confidence |-> l.confidence]
ReviewResponses(limit) ==
    {{ReviewItem(l) : l \in results} :
        results \in {rs \in SUBSET ReviewRows :
                       Cardinality(rs) = Min(limit, Cardinality(ReviewRows))}}
get_review_items(limit) ==
    /\ \E output \in ReviewResponses(limit) : rresp' = Response(<<"get_review_items", limit>>, 200, output)
    /\ UNCHANGED <<fs, dbvars, ivars, wvars, uvars, nreq>>

----------------------------------------------------------------------------
(* routers/gallery.py: the listings.  created_at is the time of the        *)
(* INSERT, so the rows are in the order of their ids.                      *)

\* a variant of the filter that lets every Image through
LiveImages_all == ImageIds

\* .where(Image.is_deleted == False), lines 70, 92, 115 and 118
LiveImages == {i \in ImageIds : ~images[i].is_deleted}

NoTag == <<>>
NoAlbum == 0
NoHash == <<>>

\* ImageRead with its tags (selectinload(Image.tags))
ImageRead(i) ==
    [id |-> i, album_id |-> images[i].album_id, path |-> images[i].path,
     file_hash |-> images[i].file_hash, is_processed |-> images[i].is_processed,
     tags |-> {tags[l.tag_id].name : l \in {m \in links : m.image_id = i}}]

\* lines 58-77: the filters on album and tag, the newest first, one page
get_images_rows(tag, album_id) ==
    {i \in LiveImages :
        /\ album_id /= NoAlbum => images[i].album_id = album_id
        /\ tag /= NoTag
           => \E l \in links : l.image_id = i /\ tags[l.tag_id].name = tag}
PageOf(rows, page, limit) ==
    {i \in rows :
        LET before == Cardinality({j \in rows : j > i})
        IN  before >= page * limit /\ before < page * limit + limit}
get_images_result(page, limit, tag, album_id) ==
    {ImageRead(i) : i \in PageOf(get_images_rows(tag, album_id), page, limit)}
get_images(page, limit, tag, album_id) ==
    /\ rresp' = Response(<<"get_images", page, limit, tag, album_id>>, 200,
                         get_images_result(page, limit, tag, album_id))
    /\ UNCHANGED <<fs, dbvars, ivars, wvars, uvars, nreq>>

\* lines 92-98: one Image by its id, 404 when the select finds none
get_image_detail_result(image_id) ==
    IF image_id \in LiveImages
    THEN [status |-> 200, items |-> {ImageRead(image_id)}]
    ELSE [status |-> 404, items |-> {}]
get_image_detail(image_id) ==
    /\ rresp' = Response(<<"get_image_detail", image_id>>,
                         get_image_detail_result(image_id).status,
                         get_image_detail_result(image_id).items)
    /\ UNCHANGED <<fs, dbvars, ivars, wvars, uvars, nreq>>

\* lines 110-128: the Albums that are not deleted, each with the count of
\* its Images and the hash of the newest of them
AlbumImages(album_id) == {i \in LiveImages : images[i].album_id = album_id}
Newest(S) == CHOOSE x \in S : \A y \in S : x >= y
AlbumReadWithStats(a) ==
    [id |-> a, name |-> albums[a].name,
     photo_count |-> Cardinality(AlbumImages(a)),
     cover_photo_hash |-> IF AlbumImages(a) = {} THEN NoHash
                          ELSE images[Newest(AlbumImages(a))].file_hash]
get_albums_result ==
    {AlbumReadWithStats(a) : a \in {b \in AlbumIds : ~albums[b].is_deleted}}
get_albums ==
    /\ rresp' = Response(<<"get_albums">>, 200, get_albums_result)
    /\ UNCHANGED <<fs, dbvars, ivars, wvars, uvars, nreq>>

----------------------------------------------------------------------------
(* workers/ai_processor.py and services/ai_engine.py, statement by         *)
(* statement: one worker process with its control thread, the two threads  *)
(* of the recognizer pool, the module globals _clip_model and _ocr_reader  *)
(* and the Sessions the process has open.                                  *)

MaxWorklist == 4
PoolThreads == {"t1", "t2"}
Threads == {"main"} \cup PoolThreads
Models == {"clip", "ocr"}

\* the process routers/ai.py 36 has spawned, before its imports
ExecStart ==
    [pc |-> [t \in Threads |-> IF t = "main" THEN "import" ELSE "off"],
     ocr_enabled |-> FALSE,
     clip_model |-> FALSE,
     ocr_reader |-> FALSE,
     building |-> {},
     built |-> [m \in Models |-> 0],
     sessions |-> {},
     todo |-> 0,
     tasks |-> 0,
     analysed |-> 0]

BatchLen(x) == IF x.todo < BATCH_SIZE THEN x.todo ELSE BATCH_SIZE

\* lines 26-31: the fetch Session is entered and the worklist read inside it
OpenFetchSession(x, total_images) ==
    [x EXCEPT !.sessions = @ \cup {"fetch"}, !.todo = total_images,
              !.pc["main"] = "fetched"]

\* a variant in which the batches are processed inside the fetch Session
CloseFetchSession_kept(x) ==
    [x EXCEPT !.pc["main"] = IF x.todo = 0 THEN "done" ELSE "clip"]

\* lines 31-40: the with block of the fetch ends, then the early return or
\* the first batch
CloseFetchSession(x) ==
    [x EXCEPT !.sessions = @ \ {"fetch"},
              !.pc["main"] = IF x.todo = 0 THEN "done" ELSE "clip"]

\* ai_engine.py 35-44 and 46-54: the check of the global; a thread that finds
\* None enters the constructor
GetModel(x, t, m, found, then) ==
    IF found THEN [x EXCEPT !.pc[t] = then]
    ELSE [x EXCEPT !.building = @ \cup {<<t, m>>}, !.pc[t] = "build_" \o m]

\* the constructor returns and the global is assigned, or it raises
ModelBuilt(x, t, m, then) ==
    [x EXCEPT !.building = @ \ {<<t, m>>},
              !.built[m] = @ + 1,
              !.clip_model = IF m = "clip" THEN TRUE ELSE @,
              !.ocr_reader = IF m = "ocr" THEN TRUE ELSE @,
              !.pc[t] = then]
ModelRaised(x, t, m, then) ==
    [x EXCEPT !.building = @ \ {<<t, m>>}, !.pc[t] = then]

\* ai_processor.py 106-109: the except clause, then the next batch
AfterBatch(x) ==
    [x EXCEPT !.sessions = @ \ {"batch"},
              !.todo = @ - BatchLen(x),
              !.pc["main"] = IF x.todo - BatchLen(x) = 0 THEN "done" ELSE "clip"]

\* what follows analyze_batch_semantics in analyze_batch (line 186)
AfterClip(x) == IF x.ocr_enabled THEN "ocr" ELSE "combine"

\* a variant of analyze_batch without the call of line 189
PreloadReader_skipped(x) == [x EXCEPT !.pc["main"] = "pool"]

\* ai_engine.py 189: get_ocr_reader() on the control thread
PreloadReader(x) == GetModel(x, "main", "ocr", x.ocr_reader, "pool")

\* ai_engine.py 192-193: the executor is created and the paths submitted
StartPool(x) ==
    [x EXCEPT !.tasks = BatchLen(x),
              !.pc = [t \in Threads |-> IF t = "main" THEN "join" ELSE "take"]]

\* the statements of the process touch neither the files nor the tables of
\* the model above: what they save is the subject of the worker actions
ExecFrame ==
    UNCHANGED <<fs, dbvars, ivars, rvars, uvars, wpc, worklist, wstart, wbatch,
                wresults, wpos, wtag, wpending, wthrew, wfailed, wruns>>

\* ai_processor.py 14 imports ai_engine, whose line 28 reads config.yaml
ExecImport ==
    /\ wexec.pc["main"] = "import"
    /\ \E enabled \in BOOLEAN :
           wexec' = [wexec EXCEPT !.ocr_enabled = enabled, !.pc["main"] = "start"]
    /\ ExecFrame

\* ai_processor.py 26
ExecFetch ==
    /\ wexec.pc["main"] = "start"
    /\ wexec' = OpenFetchSession(wexec, Len(FetchWorklist(Len(images))))
    /\ ExecFrame

\* ai_processor.py 31-40
ExecFetched ==
    /\ wexec.pc["main"] = "fetched"
    /\ wexec' = CloseFetchSession(wexec)
    /\ ExecFrame

\* ai_engine.py 78, called from line 180 on the control thread
ExecClipGet ==
    /\ wexec.pc["main"] = "clip"
    /\ wexec' = GetModel(wexec, "main", "clip", wexec.clip_model, AfterClip(wexec))
    /\ ExecFrame

\* ai_engine.py 40-44; an exception is caught at line 128 and the batch goes on
ExecClipBuilt ==
    /\ wexec.pc["main"] = "build_clip"
    /\ \/ wexec' = ModelBuilt(wexec, "main", "clip", AfterClip(wexec))
       \/ wexec' = ModelRaised(wexec, "main", "clip", AfterClip(wexec))
    /\ ExecFrame

\* ai_engine.py 189
ExecOcrGet ==
    /\ wexec.pc["main"] = "ocr"
    /\ wexec' = PreloadReader(wexec)
    /\ ExecFrame

\* ai_engine.py 50-54; an exception leaves analyze_batch and ends the batch
ExecOcrBuilt ==
    /\ wexec.pc["main"] = "build_ocr"
    /\ \/ wexec' = ModelBuilt(wexec, "main", "ocr", "pool")
       \/ wexec' = AfterBatch(ModelRaised(wexec, "main", "ocr", "failed"))
    /\ ExecFrame

\* ai_engine.py 192-193
ExecPool ==
    /\ wexec.pc["main"] = "pool"
    /\ wexec' = StartPool(wexec)
    /\ ExecFrame

\* a pool thread takes the next path, or ends when none is left
ThreadTake(t) ==
    /\ wexec.pc[t] = "take"
    /\ wexec' = IF wexec.tasks > 0
                THEN [wexec EXCEPT !.tasks = @ - 1, !.pc[t] = "get"]
                ELSE [wexec EXCEPT !.pc[t] = "off"]
    /\ ExecFrame

\* ai_engine.py 142: get_ocr_reader() in a pool thread, one statement at a
\* time: the check of the global, then the constructor of lines 50-54 for a
\* thread that found None; an exception is caught at line 162
ThreadGet(t) ==
    /\ wexec.pc[t] \in {"get", "build_ocr"}
    /\ wexec' \in IF wexec.pc[t] = "get"
                  THEN {GetModel(wexec, t, "ocr", wexec.ocr_reader, "read")}
                  ELSE {ModelBuilt(wexec, t, "ocr", "read"),
                        ModelRaised(wexec, t, "ocr", "take")}
    /\ ExecFrame

\* ai_engine.py 143-164: readtext and the tags of one image
ThreadRead(t) ==
    /\ wexec.pc[t] = "read"
    /\ wexec' = [wexec EXCEPT !.pc[t] = "take"]
    /\ ExecFrame

\* ai_engine.py 193-194: the with block of the executor waits for its threads
ExecJoin ==
    /\ wexec.pc["main"] = "join"
    /\ \A t \in PoolThreads : wexec.pc[t] = "off"
    /\ wexec' = [wexec EXCEPT !.pc["main"] = "combine"]
    /\ ExecFrame

\* ai_engine.py 196-202, ai_processor.py 50-53: analyze_batch returns and
\* the batch Session is entered
ExecOpenBatchSession ==
    /\ wexec.pc["main"] = "combine"
    /\ wexec' = [wexec EXCEPT !.sessions = @ \cup {"batch"},
                              !.analysed = @ + 1,
                              !.pc["main"] = "save"]
    /\ ExecFrame

\* ai_processor.py 55-104: the batch is saved and the Session left, by the
\* commit or by an exception
ExecSaved ==
    /\ wexec.pc["main"] = "save"
    /\ wexec' = AfterBatch(wexec)
    /\ ExecFrame

----------------------------------------------------------------------------
(* Initial states and specifications.                                      *)

InitIngestion ==
    /\ ipc = [p \in IProcs |-> "idle"]
    /\ ipaths = [p \in IProcs |-> <<>>]
    /\ iidx = [p \in IProcs |-> 1]
    /\ istats = [p \in IProcs |-> ZeroStats]
    /\ ilog = [p \in IProcs |-> <<>>]
    /\ isession = [p \in IProcs |-> "active"]
    /\ ialbum = [p \in IProcs |-> 0]
    /\ ibase = [p \in IProcs |-> 0]
    /\ iruns = 0

InitWorkers ==
    /\ wpc = [w \in WProcs |-> "idle"]
    /\ worklist = [w \in WProcs |-> <<>>]
    /\ wstart = [w \in WProcs |-> 0]
    /\ wbatch = [w \in WProcs |-> <<>>]
    /\ wresults = [w \in WProcs |-> <<>>]
    /\ wpos = [w \in WProcs |-> <<1, 1>>]
    /\ wtag = [w \in WProcs |-> 0]
    /\ wpending = [w \in WProcs |-> NoPending]
    /\ wthrew = [w \in WProcs |-> NoThrow]
    /\ wfailed = [w \in WProcs |-> {}]
    /\ wruns = 0
    /\ wexec = ExecStart
    /\ nreq = 0
    /\ rresp = NoResponse

\* an empty store and one of the import roots
InitIngest ==
    /\ fs \in Layouts
    /\ albums = <<>>
    /\ images = <<>>
    /\ tags = <<>>
    /\ links = {}
    /\ InitIngestion
    /\ InitWorkers
    /\ uploads = <<>>

\* the store after an import of the pictures of one directory, none
\* analysed yet; a gallery lists the bytes of its pictures (the rows of
\* SceneTable they show)
Galleries == { <<2, 3, 1>>, <<4, 1, 3>> }
PicName(i) == <<"p", DigitChars[i + 1], ".", "j", "p", "g">>
PicPath(i) == <<N_in, N_Trip, PicName(i)>>

InitGallery ==
    /\ \E g \in Galleries :
         /\ fs = [i \in 1..Len(g) |-> FileEntry(PicPath(i), FileData(g[i], TRUE))]
         /\ images = [i \in 1..Len(g) |-> ImageRow(1, PicPath(i), Sha256(g[i]))]
    /\ albums = <<AlbumRow(N_Trip, slugify(N_Trip), <<N_in, N_Trip>>)>>
    /\ tags = <<>>
    /\ links = {}
    /\ InitIngestion
    /\ InitWorkers
    /\ uploads = <<>>

\* one ingestion run after the other, with the deletions of the management
\* routes in between and during them
NextIngest ==
    \/ StartImport("i1")
    \/ CheckDuplicate("i1")
    \/ ResolveAlbum("i1")
    \/ CreateAlbum("i1")
    \/ SaveImage("i1")
    \/ \E image_ids \in SUBSET ImageIds : delete_images_batch(image_ids)
    \/ \E album_id \in AlbumIds, cascade \in BOOLEAN : delete_album(album_id, cascade)

SpecIngest == InitIngest /\ [][NextIngest]_vars

\* two ingestion runs at once (two POST /scan background tasks), each with
\* its own Session
NextIngestConc ==
    \E p \in IProcs :
        \/ StartImport(p)
        \/ CheckDuplicate(p)
        \/ ResolveAlbum(p)
        \/ CreateAlbum(p)
        \/ SaveImage(p)

SpecIngestConc == InitIngest /\ [][NextIngestConc]_vars

\* the store the review router works on: two analysed images of one album,
\* three classifier links of any confidence around the two bounds, and a
\* manual link
ReviewConfidences == {29, 30, 31, 50, 89, 90}
InitReview ==
    /\ fs = [i \in 1..2 |-> FileEntry(PicPath(i), FileData(i, TRUE))]
    /\ albums = <<AlbumRow(N_Trip, slugify(N_Trip), <<N_in, N_Trip>>)>>
    /\ images = [i \in 1..2 |->
                   [ImageRow(1, PicPath(i), Sha256(i)) EXCEPT !.is_processed = TRUE]]
    /\ tags = <<TagRow(T_car, "auto_classified"), TagRow(T_STOP, "manual")>>
    /\ \E c1, c2, c3 \in ReviewConfidences :
         links = {LinkRow(1, 1, c1, "ai_clip", FALSE),
                  LinkRow(2, 1, c2, "ai_clip", FALSE),
                  LinkRow(2, 2, c3, "ai_clip", FALSE),
                  LinkRow(1, 2, 100, "manual", TRUE)}
    /\ InitIngestion
    /\ InitWorkers
    /\ uploads = <<>>

\* the requests of a reviewer, with the soft deletions of manage.py
NextReview ==
    \/ \E limit \in ReviewLimits : get_review_items(limit)
    \/ \E image_id \in ImageIds, tag_id \in TagIds, action \in {"approve", "reject", "skip"} :
         review_tag(image_id, tag_id, action)
    \/ \E image_ids \in SUBSET ImageIds : delete_images_batch(image_ids)

SpecReview == InitReview /\ [][NextReview]_vars

\* the scanner on its own: a root that holds any choice of eight files,
\* among them a hidden file, files in a hidden directory and below it, a
\* file that is no image and extensions in upper case; the roots asked for
\* are the root, a directory of it, the hidden directory and a path that
\* does not exist
N_cache == <<".", "c">>
N_sub == <<"s", "u", "b">>
N_out == <<"o", "u", "t">>
ScanPool ==
    << FileEntry(<<N_in, N_e_webp>>, FileData(1, TRUE)),
       FileEntry(<<N_in, N_Trip, N_a_jpg>>, FileData(2, TRUE)),
       FileEntry(<<N_in, N_Trip, N_c_JPG>>, FileData(3, TRUE)),
       FileEntry(<<N_in, N_Trip, N_hidden_jpg>>, FileData(4, TRUE)),
       FileEntry(<<N_in, N_Trip, N_n_txt>>, FileData(5, TRUE)),
       FileEntry(<<N_in, N_cache, N_b_jpeg>>, FileData(6, TRUE)),
       FileEntry(<<N_in, N_cache, N_sub, N_f_jpg>>, FileData(7, TRUE)),
       FileEntry(<<N_in, N_Trip, N_sub, N_b_png>>, FileData(8, TRUE)) >>
Pick(pool, chosen) ==
    LET nth(k) == CHOOSE i \in chosen : Cardinality({j \in chosen : j < i}) = k - 1
    IN  [k \in 1..Cardinality(chosen) |-> pool[nth(k)]]
ScanLayouts == {Pick(ScanPool, chosen) : chosen \in SUBSET (1..Len(ScanPool))}
ScanRoots == { <<N_in>>, <<N_in, N_Trip>>, <<N_in, N_cache>>, <<N_out>> }

InitScan ==
    /\ fs \in ScanLayouts
    /\ albums = <<>>
    /\ images = <<>>
    /\ tags = <<>>
    /\ links = {}
    /\ InitIngestion
    /\ InitWorkers
    /\ uploads = <<>>

\* line 48 of process_import for the root of a request
Scan(p, root) ==
    /\ ipaths' = [ipaths EXCEPT ![p] = list_image_files(fs, root)]
    /\ UNCHANGED <<fs, dbvars, ipc, iidx, istats, ilog, isession, ialbum, ibase, iruns,
                   wvars, uvars, rvars>>

NextScan == \E root \in ScanRoots : Scan("i1", root)

SpecScan == InitScan /\ [][NextScan]_vars

\* the listings of the gallery and of the review queue, over a store whose
\* images and albums are being deleted
Pages == {0, 1}
PageLimits == {1, 50}
TagFilters == {NoTag, T_car, T_STOP}
AlbumFilters == {NoAlbum, 1}
NextGallery ==
    \/ \E page \in Pages, limit \in PageLimits, tag \in TagFilters, album_id \in AlbumFilters :
         get_images(page, limit, tag, album_id)
    \/ \E image_id \in ImageIds : get_image_detail(image_id)
    \/ get_albums
    \/ \E limit \in ReviewLimits : get_review_items(limit)
    \/ \E image_ids \in SUBSET ImageIds : delete_images_batch(image_ids)
    \/ \E album_id \in AlbumIds, cascade \in BOOLEAN : delete_album(album_id, cascade)

SpecGallery == InitReview /\ [][NextGallery]_vars

\* one worker process, run after run, with the tag and review requests in
\* between and during the runs
NextWorker ==
    \/ Fetch("w1")
    \/ Analyze("w1")
    \/ FindTag("w1")
    \/ CreateTag("w1")
    \/ FindLink("w1")
    \/ CommitBatch("w1")
    \/ \E image_id \in ImageIds, tag_name \in ManualNames : add_image_tag(image_id, tag_name)
    \/ \E image_id \in ImageIds, tag_id \in TagIds : remove_image_tag(image_id, tag_id)
    \/ \E l \in links, action \in {"approve", "reject"} :
         review_tag(l.image_id, l.tag_id, action)

SpecWorker == InitGallery /\ [][NextWorker]_vars

\* the statements of a run that has started: the process executes them one
\* after the other, so a run that can take a step does take one
RunStep(w) ==
    \/ Analyze(w)
    \/ FindTag(w)
    \/ CreateTag(w)
    \/ FindLink(w)
    \/ CommitBatch(w)

\* the runs of one worker with the manual tag additions that can make a
\* batch fail
NextWorkerRun ==
    \/ Fetch("w1")
    \/ RunStep("w1")
    \/ \E image_id \in ImageIds, tag_name \in ManualNames : add_image_tag(image_id, tag_name)

SpecWorkerFair == InitGallery /\ [][NextWorkerRun]_vars /\ WF_vars(RunStep("w1"))

\* the whole life of the store: ingestion runs, worker runs, review
\* requests, and the soft deletions of images and albums, in any order
NextLifecycle ==
    \/ StartImport("i1")
    \/ CheckDuplicate("i1")
    \/ ResolveAlbum("i1")
    \/ CreateAlbum("i1")
    \/ SaveImage("i1")
    \/ Fetch("w1")
    \/ RunStep("w1")
    \/ \E l \in links, action \in {"approve", "reject"} :
         review_tag(l.image_id, l.tag_id, action)
    \/ \E image_ids \in SUBSET ImageIds : delete_images_batch(image_ids)
    \/ \E album_id \in AlbumIds, cascade \in BOOLEAN : delete_album(album_id, cascade)

\* an empty store before a root with one directory of two pictures
LayoutPair ==
    << FileEntry(<<N_in, N_Trip, N_a_jpg>>, FileData(1, TRUE)),
       FileEntry(<<N_in, N_Trip, N_b_png>>, FileData(3, TRUE)) >>
InitLifecycle ==
    /\ fs = LayoutPair
    /\ albums = <<>>
    /\ images = <<>>
    /\ tags = <<>>
    /\ links = {}
    /\ InitIngestion
    /\ InitWorkers
    /\ uploads = <<>>

SpecLifecycle == InitLifecycle /\ [][NextLifecycle]_vars

Spec == SpecIngest


----------------------------------------------------------------------------
(* Properties of ingestion.                                                *)

\* what the current file of run p is, and what a step of p did with it
CurrentFile(p) == ipaths[p][iidx[p]]
CurrentHash(p) == calculate_file_hash(fs, CurrentFile(p))
FileDone(p) == Len(ilog'[p]) = Len(ilog[p]) + 1 /\ ipc[p] /= "idle" /\ ipc[p] /= "done"
Outcome(p) == ilog'[p][Len(ilog'[p])]
HashesStored == {images[i].file_hash : i \in ImageIds}
SameHash(h) == {i \in ImageIds : images[i].file_hash = h}
Skips == {"skip_duplicate", "skip_deleted"}

\* C1: files with identical byte content, met in one run or in runs that
\* follow one another, leave exactly one Image with that fingerprint: no
\* two Image rows ever share a file_hash, a file whose fingerprint is
\* stored adds no row and raises skipped (and not added) by one, and a
\* file that is added leaves exactly one row with its fingerprint.
C1_OneImagePerFingerprint ==
    /\ [](\A i, j \in ImageIds : images[i].file_hash = images[j].file_hash => i = j)
    /\ [][\A p \in IProcs :
            (FileDone(p) /\ ipc[p] = "file" /\ ~CurrentHash(p).raised
               /\ CurrentHash(p).hash \in HashesStored)
            => /\ images' = images
               /\ Outcome(p) \in Skips
               /\ istats'[p] = [istats[p] EXCEPT !.skipped = @ + 1]]_vars
    /\ [][\A p \in IProcs :
            (FileDone(p) /\ Outcome(p) = "added")
            => /\ Len(images') = Len(images) + 1
               /\ Cardinality({i \in DOMAIN images' :
                                 images'[i].file_hash = CurrentHash(p).hash}) = 1
               /\ istats'[p] = [istats[p] EXCEPT !.added = @ + 1]]_vars

\* a run has skipped a file as a duplicate of the one Image with its bytes
C1_Witness ==
    \E k \in 1..Len(ilog["i1"]) :
        /\ ilog["i1"][k] = "skip_duplicate"
        /\ Cardinality(SameHash(calculate_file_hash(fs, ipaths["i1"][k]).hash)) = 1
        /\ istats["i1"].skipped >= 1

\* C2: once an Image is soft-deleted, a run that meets a file with its
\* fingerprint records the file as skipped, no step of a run adds an Image
\* with that fingerprint, and the deleted flag of the record stays true.
C2_DeletedStaysDeleted ==
    /\ [][\A p \in IProcs :
            (FileDone(p) /\ ipc[p] = "file" /\ ~CurrentHash(p).raised
               /\ \E i \in SameHash(CurrentHash(p).hash) : images[i].is_deleted)
            => /\ images' = images
               /\ Outcome(p) = "skip_deleted"
               /\ istats'[p] = [istats[p] EXCEPT !.skipped = @ + 1]]_vars
    /\ [][\A i \in ImageIds :
            images[i].is_deleted
            => /\ images'[i].is_deleted
               /\ \A j \in DOMAIN images' :
                    images'[j].file_hash = images[i].file_hash => j = i]_vars

\* a later run has met the file of a soft-deleted Image and skipped it
C2_Witness ==
    \E k \in 1..Len(ilog["i1"]) :
        /\ ilog["i1"][k] = "skip_deleted"
        /\ iruns = 2
        /\ \E i \in SameHash(calculate_file_hash(fs, ipaths["i1"][k]).hash) :
             images[i].is_deleted
        /\ Cardinality(SameHash(calculate_file_hash(fs, ipaths["i1"][k]).hash)) = 1

\* C3: a second run over a root the caller has not changed adds no Image,
\* whatever the layout of the root, archives included.
C3_SecondRunAddsNothing ==
    (iruns = 2 /\ ipc["i1"] = "done") => istats["i1"].added = 0

\* C4: an exception while one file is handled costs that file only; every
\* later file of the run is handled normally, so a later readable file is
\* never counted as an error by the hashing and the duplicate lookup.
C4_LaterFilesHandled ==
    [][\A p \in IProcs :
         (FileDone(p) /\ ipc[p] = "file" /\ ~CurrentHash(p).raised
            /\ \E k \in 1..Len(ilog[p]) : ilog[p][k] = "error")
         => Outcome(p) /= "error"]_vars

\* the files a run discovered, and their contents
Readable(paths) == \A k \in 1..Len(paths) : FileAt(fs, paths[k]).data.readable
Contents(paths) == {FileAt(fs, paths[k]).data.bytes : k \in 1..Len(paths)}

\* C5: a run into an empty store over m readable image files with k
\* distinct contents returns added = k, skipped = m - k, errors = 0.
C5_StatsOfFirstRun ==
    (ipc["i1"] = "done" /\ iruns = 1 /\ Readable(ipaths["i1"]))
    => istats["i1"] = [added |-> Cardinality(Contents(ipaths["i1"])),
                       skipped |-> Len(ipaths["i1"]) - Cardinality(Contents(ipaths["i1"])),
                       errors |-> 0]

\* three distinct images and an exact duplicate of one: 3, 1, 0
C5_Witness ==
    /\ ipc["i1"] = "done" /\ iruns = 1 /\ Readable(ipaths["i1"])
    /\ Len(ipaths["i1"]) = 4
    /\ Cardinality(Contents(ipaths["i1"])) = 3
    /\ istats["i1"] = [added |-> 3, skipped |-> 1, errors |-> 0]

----------------------------------------------------------------------------
(* Properties of the AI worker and of the requests on tags.                *)

LinksOfImage(image_id) == {l \in links : l.image_id = image_id}
LinksOfPair(image_id, tag_id) ==
    {l \in links : l.image_id = image_id /\ l.tag_id = tag_id}
WorkerStep(w) ==
    <<wpc[w], wpos[w], wpending[w], wstart[w], wfailed[w]>>
      /= <<wpc'[w], wpos'[w], wpending'[w], wstart'[w], wfailed'[w]>>

\* C6: in every reachable state, whatever the interleaving of worker runs,
\* manual tag additions and review actions, each (Image, Tag) pair has at
\* most one TagLink.
C6_OneLinkPerPair ==
    \A l1, l2 \in links :
        (l1.image_id = l2.image_id /\ l1.tag_id = l2.tag_id) => l1 = l2

\* a worker run and a manual addition have both linked tags to one image
C6_Witness ==
    \E l1, l2 \in links :
        /\ l1.image_id = l2.image_id
        /\ l1.source = "manual"
        /\ l2.source /= "manual"
        /\ wruns >= 1

\* the candidate of the save loop the worker is at, and the Tag of its name
CandidateImage(w) == wbatch[w][wpos[w][1]].id
CandidateItem(w) == wresults[w][wpos[w][1]][wpos[w][2]]
CandidateTags(w) ==
    IF wpc[w] = "link" THEN {wtag[w]}
    ELSE {t \in TagIds : tags[t].name = CandidateItem(w).name}

\* C7: when the worker handles a candidate whose (image, tag) pair already
\* has a TagLink, the link keeps its confidence, source and verified flag
\* and no second link is added, neither to the table nor to the session;
\* no step of the worker changes or removes a link that exists, so a
\* manual or approved link keeps verified = true and confidence 1.0.
C7_ExistingLinkUntouched ==
    /\ [][\A w \in WProcs :
            (WorkerStep(w) /\ wpc[w] \in {"save", "link"}
               /\ ~(\E l \in wpending[w].links : LinksOfPair(l.image_id, l.tag_id) /= {})
               /\ \E t \in CandidateTags(w) : LinksOfPair(CandidateImage(w), t) /= {})
            => /\ links' = links
               /\ wpending'[w].links = wpending[w].links
               /\ wfailed'[w] = wfailed[w]]_vars
    /\ [][\A w \in WProcs : WorkerStep(w) => links \subseteq links']_vars
    /\ [][\A w \in WProcs :
            WorkerStep(w)
            => \A l \in links' \ links : LinksOfPair(l.image_id, l.tag_id) = {}]_vars

\* the worker is past a candidate whose pair had been linked by hand: one
\* request was served, the link is the manual one, and the session holds
\* no link for the pair
C7_Witness ==
    /\ nreq = 1
    /\ wpc["w1"] \in {"save", "commit"}
    /\ \E idx \in 1..Len(wbatch["w1"]) : \E k \in 1..Len(wresults["w1"][idx]) :
         /\ (idx < wpos["w1"][1] \/ (idx = wpos["w1"][1] /\ k < wpos["w1"][2]))
         /\ \E l \in LinksOfImage(wbatch["w1"][idx].id) :
              /\ tags[l.tag_id].name = wresults["w1"][idx][k].name
              /\ l.source = "manual" /\ l.is_verified /\ l.confidence = 100
              /\ ~(\E q \in wpending["w1"].links :
                     q.image_id = l.image_id /\ q.tag_id = l.tag_id)

\* the batch a worker has just committed, and what its analysis produced
BatchCommitted(w) ==
    /\ wpc[w] \in {"analyze", "done"}
    /\ wbatch[w] /= <<>>
    /\ SeqIds(wbatch[w]) \cap wfailed[w] = {}
RunSucceeded(w) == wpc[w] = "done" /\ wfailed[w] = {}
OneClipCandidate(w, idx) ==
    Len(wresults[w][idx]) = 1 /\ wresults[w][idx][1].source = "ai_clip"
LinksAsAnalysed(w) ==
    \A idx \in 1..Len(wbatch[w]) :
        /\ OneClipCandidate(w, idx)
           => \E l \in links :
                /\ LinksOfImage(wbatch[w][idx].id) = {l}
                /\ l.source = "ai_clip" /\ ~l.is_verified
                /\ tags[l.tag_id].name = wresults[w][idx][1].name
        /\ wresults[w][idx] = <<>> => LinksOfImage(wbatch[w][idx].id) = {}

\* C8 as stated: after a run in which no batch failed every image of the
\* worklist is processed, an image with one classifier candidate has
\* exactly one TagLink, of source ai_clip and unverified, and an image
\* without candidates has no TagLink.
C8_AsStated ==
    /\ RunSucceeded("w1") => \A i \in SeqIds(worklist["w1"]) : images[i].is_processed
    /\ BatchCommitted("w1") => LinksAsAnalysed("w1")

\* C8 with the condition it needs: the links are those of the analysis
\* when no tag or review request touched the store before or during the
\* run (the worker leaves the links of a request alone, and a request may
\* add or remove links of its own).
C8_ProcessedAndLinked ==
    /\ RunSucceeded("w1") => \A i \in SeqIds(worklist["w1"]) : images[i].is_processed
    /\ (BatchCommitted("w1") /\ nreq = 0) => LinksAsAnalysed("w1")

\* a run without a failed batch and without requests has ended: an image
\* with one classifier candidate holds its one link, and another image,
\* without candidates, is processed and holds none
C8_Witness ==
    /\ RunSucceeded("w1") /\ BatchCommitted("w1") /\ nreq = 0
    /\ \E idx \in 1..Len(wbatch["w1"]) :
         /\ OneClipCandidate("w1", idx)
         /\ Cardinality(LinksOfImage(wbatch["w1"][idx].id)) = 1
    /\ \E i \in SeqIds(worklist["w1"]) :
         /\ images[i].is_processed
         /\ LinksOfImage(i) = {}
         /\ analyze_batch(fs, <<images[i].path>>, FALSE, {})[1] = <<>>

\* C9: an exception at any point of the analysis or the saving of a batch
\* leaves every image of the batch with is_processed = false after the
\* run, so that the next fetch selects it again.
C9_FailedBatchUnprocessed ==
    wpc["w1"] = "done" => \A i \in wfailed["w1"] : ~images[i].is_processed

\* C10: if the classifier or the recognizer throws while a batch is
\* analysed, the run marks no image of the batch as processed.
C10_ThrowLeavesUnprocessed ==
    (wthrew["w1"].clip \/ wthrew["w1"].ocr /= {})
    => \A i \in SeqIds(wbatch["w1"]) : ~images[i].is_processed

\* C11: a worker run always terminates, and an exception in one batch
\* does not keep a later batch of the run from being analysed and
\* persisted: the run comes to its end, having gone through the whole
\* worklist, and every image of a batch that did not fail is processed.
Running(w) == wpc[w] \notin {"idle", "done"}
C11_RunTerminates ==
    /\ Running("w1") ~> (wpc["w1"] = "done")
    /\ [](wpc["w1"] = "done"
          => /\ wstart["w1"] >= Len(worklist["w1"])
             /\ \A i \in SeqIds(worklist["w1"]) \ wfailed["w1"] : images[i].is_processed)

\* a run has ended in which the first batch failed and the image of the
\* batch after it was analysed and persisted
C11_Witness ==
    /\ wpc["w1"] = "done"
    /\ Len(worklist["w1"]) > BATCH_SIZE
    /\ worklist["w1"][1].id \in wfailed["w1"]
    /\ \E k \in (BATCH_SIZE + 1)..Len(worklist["w1"]) :
         /\ worklist["w1"][k].id \notin wfailed["w1"]
         /\ images[worklist["w1"][k].id].is_processed

----------------------------------------------------------------------------
(* Properties of the review queue.                                         *)

LinkOfItem(item) ==
    {l \in links : l.image_id = item.image_id /\ l.tag_id = item.tag_id}
InBounds(l) == ~l.is_verified /\ l.confidence > 30 /\ l.confidence < 90

\* C12: get_review_items never returns a verified link nor one whose
\* confidence is at or below 0.30 or at or above 0.90: whatever the limit
\* and whichever rows the database picks, every item returned is the item
\* of an unverified link with a confidence strictly between the bounds.
C12_QueueWithinBounds ==
    \A limit \in ReviewLimits : \A output \in ReviewResponses(limit) :
        \A item \in output :
            /\ LinkOfItem(item) /= {}
            /\ \A l \in LinkOfItem(item) : InBounds(l) /\ item.confidence = l.confidence

\* the queue was returned with an item in it while links at 0.29 or 0.30,
\* at 0.90, and a verified one, all of live images, were left out
C12_Witness ==
    /\ rresp.status = 200 /\ rresp.items /= {}
    /\ rresp.items \in ReviewResponses(20)
    /\ \E l \in links : l.confidence <= 30 /\ ~images[l.image_id].is_deleted
    /\ \E l \in links : l.confidence = 90 /\ ~l.is_verified /\ ~images[l.image_id].is_deleted
    /\ \E l \in links : l.is_verified /\ ~images[l.image_id].is_deleted

Surfaceable == {l \in links : InBounds(l) /\ ~images[l.image_id].is_deleted}
Approved(out, l) ==
    \E a \in out.links :
        /\ {m \in out.links : m.image_id = l.image_id /\ m.tag_id = l.tag_id} = {a}
        /\ a.is_verified /\ a.confidence = 100 /\ ~InBounds(a)

C15_RejectRemovesOneLink ==
    /\ [](\A l \in links :
            LET out == review_tag_result(l.image_id, l.tag_id, "reject")
            IN  /\ out.status = 200
                /\ out.links = links \ {l}
                /\ ~LinkKeyTaken(out.links, l.image_id, l.tag_id)
                /\ Cardinality({m \in out.links : m.image_id = l.image_id})
                   = Cardinality(LinksOfImage(l.image_id)) - 1)
    /\ [][(nreq' = nreq + 1 /\ links' /= links /\ Cardinality(links') <= Cardinality(links)
            /\ \A m \in links' : m \in links)
           => /\ \E l \in links :
                   /\ links' = links \ {l}
                   /\ l.image_id \in DOMAIN images' /\ l.tag_id \in DOMAIN tags'
                   /\ rresp'.status = 200
              /\ images' = images /\ tags' = tags]_vars

\* a link was rejected: its pair has no link any more, the other three
\* links are there, and its Image and its Tag are in the store
C15_Witness ==
    /\ rresp.status = 200 /\ nreq = 1
    /\ Cardinality(links) = 3
    /\ \E i \in DOMAIN images, t \in DOMAIN tags :
         LinksOfPair(i, t) = {} /\ LinksOfImage(i) /= {}

\* the requests review_tag turns away: an action that is neither approve
\* nor reject, or a pair without a link
ReviewActions == {"approve", "reject", "skip"}
Refused(image_id, tag_id, action) ==
    action \notin {"approve", "reject"} \/ LinksOfPair(image_id, tag_id) = {}

\* C16: a review request whose action is neither approve nor reject, or
\* whose pair has no TagLink, fails with an error (400 or 404) and leaves
\* every TagLink, Tag and Image unchanged.
C16_RefusedChangesNothing ==
    /\ [](\A image_id \in ImageIds, tag_id \in TagIds, action \in ReviewActions :
            LET out == review_tag_result(image_id, tag_id, action)
            IN  /\ Refused(image_id, tag_id, action)
                   => out.status \in {400, 404} /\ out.links = links
                /\ out.status \in {400, 404} => Refused(image_id, tag_id, action))
    /\ [][(nreq' = nreq + 1 /\ rresp'.status \in {400, 404})
           => links' = links /\ tags' = tags /\ images' = images]_vars

\* a request for a pair without a link was refused with 404: the pair had
\* lost its link to a reject, and the three other links are as they were
C16_Witness ==
    /\ nreq = 2
    /\ rresp.status = 404
    /\ Cardinality(links) = 3
    /\ \E i \in ImageIds, t \in TagIds : LinksOfPair(i, t) = {}
    /\ \A l \in links : l.is_verified => l.source = "manual"

\* C17: the only transitions of a review action are unverified to verified
\* (approve) and unverified to removed (reject): a link that is already
\* verified is neither removed nor modified by a review request.
C17_VerifiedLinkKept ==
    [][(nreq' = nreq + 1 /\ rresp'.status = 200)
       => \A l \in links : l.is_verified => l \in links']_vars

\* the candidate a worker is at, and the link its session holds for a pair
CandidateOf(w) == wresults[w][wpos[w][1]][wpos[w][2]]
PendingLink(w, image_id, tag_id, tag_item) ==
    \E l \in wpending'[w].links :
        /\ l.image_id = image_id /\ l.tag_id = tag_id
        /\ ~l.is_verified /\ l.confidence = tag_item.confidence
        /\ l.source = tag_item.source

\* C18: a TagLink removed by reject can be recreated by a later worker
\* run: when the worker handles a candidate it looks at the links that
\* exist and at nothing else, and adds an unverified link whenever the
\* pair has none, whatever was rejected before.
C18_LinkAddedWhenNoneExists ==
    [][/\ (/\ wpc["w1"] = "link" /\ WorkerStep("w1")
            /\ ~FlushConflict(wpending["w1"])
            /\ ~existing_link("w1", wbatch["w1"][wpos["w1"][1]].id, wtag["w1"]))
           => PendingLink("w1", wbatch["w1"][wpos["w1"][1]].id, wtag["w1"],
                          CandidateOf("w1"))
       /\ (/\ wpc["w1"] = "save" /\ WorkerStep("w1")
            /\ ~FlushConflict(wpending["w1"])
            /\ TagsWithName(CandidateOf("w1").name) /= {}
            /\ ~existing_link("w1", wbatch["w1"][wpos["w1"][1]].id,
                               First(TagsWithName(CandidateOf("w1").name))))
           => PendingLink("w1", wbatch["w1"][wpos["w1"][1]].id,
                          First(TagsWithName(CandidateOf("w1").name)),
                          CandidateOf("w1"))]_vars

\* two requests were served: a tag added by hand, whose link is there, and
\* last a reject that removed a link of the worker; a second worker run
\* has committed an unverified link for the rejected pair
C18_Witness ==
    /\ wruns = 2 /\ nreq = 2
    /\ rresp.status = 200
    /\ Len(rresp.request) = 4
    /\ rresp.request[4] = "reject"
    /\ \E l \in links : l.source = "manual"
    /\ \E l \in LinksOfPair(rresp.request[2], rresp.request[3]) :
         ~l.is_verified /\ l.source \in {"ai_clip", "ai_ocr"}

\* C19: when two concurrent runs resolve the album of the same new
\* directory, exactly one Album with the slug exists afterwards, and the
\* run whose creation fails on the unique slug reads the existing Album
\* and persists its Image: its file is not counted as an error.
C19_AlbumRaceStillAdds ==
    /\ [](\A a, b \in AlbumIds : albums[a].slug = albums[b].slug => a = b)
    /\ [][\A p \in IProcs :
            (ipc[p] = "mkalbum" /\ FileDone(p)) => Outcome(p) /= "error"]_vars

\* C20: under any interleaving of two concurrent runs over files of the
\* same content, no state has two Images with the same fingerprint.
C20_FingerprintUniqueConcurrent ==
    \A h \in HashesStored : Cardinality(SameHash(h)) = 1

\* C21: no two Albums ever share a slug, and every file whose parent
\* directory name gives a slug is attached to the one Album of that slug:
\* an Album is created only when none has the slug, and a file that finds
\* the Album is added to it.
C21_OneAlbumPerSlug ==
    /\ [](\A a, b \in AlbumIds : albums[a].slug = albums[b].slug => a = b)
    /\ [](\A i \in ImageIds :
            /\ images[i].album_id \in AlbumIds
            /\ albums[images[i].album_id].slug = slugify(AlbumNameOf(images[i].path)))
    /\ [][\A p \in IProcs :
            LET found == AlbumsWithSlug(slugify(AlbumNameOf(CurrentFile(p))))
            IN  /\ (ipc[p] = "album" /\ ipc'[p] /= "album" /\ found /= {})
                   => albums' = albums /\ ialbum'[p] \in found
                /\ (ipc[p] = "mkalbum" /\ Len(albums') > Len(albums))
                   => /\ found = {}
                      /\ albums'[Len(albums')].slug = slugify(AlbumNameOf(CurrentFile(p)))
                /\ (FileDone(p) /\ Outcome(p) = "added")
                   => /\ found = {images'[Len(images')].album_id}
                      /\ albums' = albums]_vars

\* files of two directories whose names differ and give one slug are in
\* one Album, the only one of that slug
C21_Witness ==
    \E i, j \in ImageIds :
        /\ AlbumNameOf(images[i].path) /= AlbumNameOf(images[j].path)
        /\ images[i].album_id = images[j].album_id
        /\ Cardinality(AlbumsWithSlug(slugify(AlbumNameOf(images[i].path)))) = 1

\* C22: in every reachable state no two Tags have the same name: a Tag is
\* created, by the worker or by add_image_tag, only when no Tag has the
\* name, one at a time, also when several candidates of one batch name the
\* same new tag.
C22_OneTagPerName ==
    /\ [](\A a, b \in TagIds : tags[a].name = tags[b].name => a = b)
    /\ [][tags' /= tags
          => /\ Len(tags') = Len(tags) + 1
             /\ SubSeq(tags', 1, Len(tags)) = tags
             /\ TagsWithName(tags'[Len(tags')].name) = {}]_vars

\* two images of one batch were given the same new tag by the classifier:
\* the worker created the Tag once and both links point to it
C22_Witness ==
    \E l1, l2 \in links :
        /\ l1.image_id /= l2.image_id /\ l1.tag_id = l2.tag_id
        /\ l1.source = "ai_clip" /\ l2.source = "ai_clip"
        /\ tags[l1.tag_id].category /= "manual"
        /\ {l1.image_id, l2.image_id} \subseteq SeqIds(wbatch["w1"])
        /\ Cardinality(TagsWithName(tags[l1.tag_id].name)) = 1

\* the links a step creates: those of a pair that had no link
CreatedLinks == {l \in links' : LinksOfPair(l.image_id, l.tag_id) = {}}
ByHand(l) ==
    /\ nreq' = nreq + 1
    /\ l.source = "manual" /\ l.is_verified /\ l.confidence = 100
ByWorker(w, l) ==
    /\ WorkerStep(w)
    /\ ~l.is_verified /\ l.source \in {"ai_clip", "ai_ocr"}
    /\ \E idx \in 1..Len(wbatch[w]) : \E k \in 1..Len(wresults[w][idx]) :
         /\ wbatch[w][idx].id = l.image_id
         /\ wresults[w][idx][k].name = tags'[l.tag_id].name
         /\ wresults[w][idx][k].confidence = l.confidence
         /\ wresults[w][idx][k].source = l.source

\* C23: every TagLink is created either by add_image_tag, with confidence
\* 1.0, verified and of source manual, or by the worker, unverified, with
\* the confidence and the source (ai_clip or ai_ocr) of a candidate of the
\* image for that tag; no other step creates a TagLink.
C23_LinksByHandOrWorker ==
    [][\A l \in CreatedLinks : ByHand(l) \/ ByWorker("w1", l)]_vars

\* the store holds a link made by hand and links of the worker from the
\* classifier and from the recognizer
C23_Witness ==
    /\ \E l \in links : l.source = "manual" /\ l.is_verified /\ l.confidence = 100
    /\ \E l \in links : l.source = "ai_clip" /\ ~l.is_verified
    /\ \E l \in links : l.source = "ai_ocr" /\ ~l.is_verified

\* C24: no operation ever removes an Image: through ingestions, worker
\* runs, review actions, image deletions and album deletions every Image
\* that was persisted is still there with its fingerprint, its path and
\* its album, and a step changes an Image only by setting its deleted
\* flag or its processed flag.
C24_ImagesNeverRemoved ==
    [][/\ Len(images') >= Len(images)
       /\ \A i \in ImageIds :
            /\ images'[i].file_hash = images[i].file_hash
            /\ images'[i].path = images[i].path
            /\ images'[i].album_id = images[i].album_id
            /\ images[i].is_deleted => images'[i].is_deleted
            /\ images[i].is_processed => images'[i].is_processed]_vars

\* both images were deleted, one by its id and one with its album, a
\* second ingestion run and a worker run have ended and a review request
\* was served: the two rows are there with their fingerprints
C24_Witness ==
    /\ iruns = 2 /\ ipc["i1"] = "done"
    /\ wruns >= 1 /\ wpc["w1"] = "done"
    /\ nreq >= 1
    /\ Len(images) = 2
    /\ \A i \in ImageIds : images[i].is_deleted
    /\ \E a \in AlbumIds : albums[a].is_deleted
    /\ {images[i].file_hash : i \in ImageIds} = {Sha256(1), Sha256(3)}

\* C25: an Image whose deleted flag is true is returned by none of the
\* listings: not by get_images, whatever the page and the filters, not by
\* get_image_detail, not in the photo count or as the cover of an album
\* of get_albums, and not by get_review_items.
C25_DeletedNeverListed ==
    /\ \A page \in Pages, limit \in PageLimits, tag \in TagFilters, album_id \in AlbumFilters :
         \A item \in get_images_result(page, limit, tag, album_id) :
             ~images[item.id].is_deleted
    /\ \A image_id \in ImageIds :
         images[image_id].is_deleted
         => /\ get_image_detail_result(image_id).status = 404
            /\ get_image_detail_result(image_id).items = {}
    /\ \A album \in get_albums_result :
         /\ album.photo_count
            = Cardinality({i \in ImageIds : images[i].album_id = album.id
                                            /\ ~images[i].is_deleted})
         /\ album.cover_photo_hash /= NoHash
            => \E i \in ImageIds : /\ images[i].album_id = album.id
                                   /\ ~images[i].is_deleted
                                   /\ images[i].file_hash = album.cover_photo_hash
    /\ \A limit \in ReviewLimits : \A output \in ReviewResponses(limit) :
         \A item \in output : \A i \in ImageIds :
             images[i].file_hash = item.image_hash => ~images[i].is_deleted

\* the newer of the two images was deleted and the album was listed: it
\* counts one photo and its cover is the older image
C25_Witness ==
    /\ Len(rresp.request) = 1 /\ rresp.request[1] = "get_albums"
    /\ images[2].is_deleted /\ ~images[1].is_deleted
    /\ \E album \in rresp.items :
         album.photo_count = 1 /\ album.cover_photo_hash = images[1].file_hash

\* the files a scan of root is to return: the files below root with a
\* supported extension, in any letter case, and no component below root
\* that begins with a dot
HasImageExtension(name) ==
    \E ext \in SUPPORTED_EXTENSIONS :
        Len(name) > Len(ext) /\ EndsWith(Lower(name), ext)
ExpectedScan(f, root) ==
    {f[i].path : i \in {j \in 1..Len(f) :
        /\ f[j].kind = "file"
        /\ IsPrefix(root, f[j].path) /\ Len(f[j].path) > Len(root)
        /\ HasImageExtension(BaseName(f[j].path))
        /\ \A k \in (Len(root) + 1)..Len(f[j].path) : f[j].path[k][1] /= Dot}}

\* C26: list_image_files returns exactly the files under the root whose
\* extension is one of .jpg, .jpeg, .png, .webp in any letter case and
\* none of whose path components below the root begins with a dot, each
\* once, and the empty list when the root does not exist.
C26_ScanReturnsImages ==
    \A root \in ScanRoots :
        LET out == list_image_files(fs, root)
        IN  /\ {out[k] : k \in 1..Len(out)} = ExpectedScan(fs, root)
            /\ \A k1, k2 \in 1..Len(out) : out[k1] = out[k2] => k1 = k2
            /\ ~Exists(fs, root) => out = <<>>

\* the root held all eight files and was scanned: the four images outside
\* the hidden directory came back, the one in upper case among them
C26_Witness ==
    /\ Len(fs) = Len(ScanPool)
    /\ {ipaths["i1"][k] : k \in 1..Len(ipaths["i1"])}
       = { <<N_in, N_e_webp>>, <<N_in, N_Trip, N_a_jpg>>,
           <<N_in, N_Trip, N_c_JPG>>, <<N_in, N_Trip, N_sub, N_b_png>> }

\* the archives of a filesystem, and the directory an archive is to be
\* expanded into: its sibling named after it
IsArchive(e) ==
    e.kind = "file" /\ e.data.zip /\ EndsWith(Lower(BaseName(e.path)), DotZip)
ArchiveDir(path) ==
    Append(DirName(path), SubSeq(BaseName(path), 1, Len(BaseName(path)) - Len(DotZip)))
ImageMembers(e) ==
    {ArchiveDir(e.path) \o e.data.members[k].path : k \in
        {j \in 1..Len(e.data.members) :
            HasImageExtension(BaseName(e.data.members[j].path))}}

\* C27: before it scans, a run expands every archive under the root,
\* whatever the letter case of its .zip extension and however deep it
\* lies, into the sibling directory named after it, and the images of the
\* archive are among the files the same run discovered.
C27_ArchivesExpanded ==
    (iruns >= 1 /\ ipc["i1"] /= "idle")
    => \A i \in 1..Len(fs) :
         IsArchive(fs[i])
         => /\ Exists(fs, ArchiveDir(fs[i].path))
            /\ ImageMembers(fs[i]) \subseteq {ipaths["i1"][k] : k \in 1..Len(ipaths["i1"])}

\* a step of an ingestion run, and whether the thumbnail of the file a run
\* is at exists in a filesystem
IngestStep(p) == <<ipc[p], iidx[p]>> /= <<ipc'[p], iidx'[p]>>
HasThumbnail(f, p) == Exists(f, ThumbPath(CurrentHash(p).hash))

\* C28: a failure of the thumbnail generation for a file does not fail the
\* file: the run goes on to the album and the Image, which is persisted
\* and counted as added, and errors is not incremented.
C28_ThumbnailFailureNotFatal ==
    /\ [][\A p \in IProcs :
            (ipc[p] = "album" /\ IngestStep(p) /\ ~HasThumbnail(fs', p))
            => /\ ipc'[p] \in {"mkalbum", "save"}
               /\ istats'[p] = istats[p] /\ ilog'[p] = ilog[p]]_vars
    /\ [][\A p \in IProcs :
            (ipc[p] = "save" /\ IngestStep(p) /\ ~HasThumbnail(fs, p))
            => /\ Outcome(p) = "added"
               /\ Len(images') = Len(images) + 1
               /\ images'[Len(images')].file_hash = CurrentHash(p).hash
               /\ istats'[p] = [istats[p] EXCEPT !.added = @ + 1]]_vars

\* a run has ended without errors: the Image of the file that cannot be
\* decoded is stored and there is no thumbnail for it, while the picture
\* beside it has one
C28_Witness ==
    /\ ipc["i1"] = "done" /\ istats["i1"].errors = 0 /\ istats["i1"].added = 3
    /\ \E i, j \in ImageIds :
         /\ images[i].file_hash = Sha256(9)
         /\ ~Exists(fs, ThumbPath(images[i].file_hash))
         /\ images[j].file_hash = Sha256(1)
         /\ Exists(fs, ThumbPath(images[j].file_hash))


----------------------------------------------------------------------------
(* One worker process, statement by statement.                             *)

NextExec ==
    \/ ExecImport
    \/ ExecFetch
    \/ ExecFetched
    \/ ExecClipGet
    \/ ExecClipBuilt
    \/ ExecOcrGet
    \/ ExecOcrBuilt
    \/ ExecPool
    \/ \E t \in PoolThreads : ThreadTake(t)
    \/ \E t \in PoolThreads : ThreadGet(t)
    \/ \E t \in PoolThreads : ThreadRead(t)
    \/ ExecJoin
    \/ ExecOpenBatchSession
    \/ ExecSaved

\* a store of up to MaxWorklist pictures, none analysed yet
InitExec ==
    /\ \E n \in 0..MaxWorklist :
         /\ fs = [i \in 1..n |-> FileEntry(PicPath(i), FileData(i, TRUE))]
         /\ images = [i \in 1..n |-> ImageRow(1, PicPath(i), Sha256(i))]
    /\ albums = <<AlbumRow(N_Trip, slugify(N_Trip), <<N_in, N_Trip>>)>>
    /\ tags = <<>>
    /\ links = {}
    /\ InitIngestion
    /\ InitWorkers
    /\ uploads = <<>>

SpecExec == InitExec /\ [][NextExec]_vars

\* a pool thread that has been started and has not ended
Active(t) == wexec.pc[t] /= "off"

\* C29: in a worker process the classifier and the recognizer are each
\* constructed at most once; the recognizer is there before a thread of the
\* pool starts, no pool thread ever enters a constructor, and no two threads
\* are in a constructor at the same time
C29_ModelsBuiltOnce ==
    /\ \A m \in Models : wexec.built[m] <= 1
    /\ (\E t \in PoolThreads : Active(t)) => wexec.ocr_reader
    /\ \A b \in wexec.building : b[1] = "main"
    /\ Cardinality(wexec.building) <= 1

\* both pool threads are reading in the second batch of a process that has
\* built each model once
C29_Witness ==
    /\ wexec.analysed = 1
    /\ \A t \in PoolThreads : wexec.pc[t] = "read"
    /\ \A m \in Models : wexec.built[m] = 1


\* the control thread is inside analyze_batch (ai_processor.py line 50)
InAnalyzeBatch ==
    wexec.pc["main"] \in {"clip", "build_clip", "ocr", "build_ocr", "pool",
                          "join", "combine"}

\* C30: while analyze_batch runs, for the first batch and for every later
\* one, the worker process has no Session open: the fetch Session is closed
\* before the first call, and every step that enters analyze_batch leaves
\* the process without a Session
C30_NoSessionDuringAnalysis ==
    /\ [](InAnalyzeBatch => wexec.sessions = {})
    /\ [][InAnalyzeBatch' /\ ~InAnalyzeBatch => wexec'.sessions = {}]_vars

\* analyze_batch waits for its pool in the second batch, after the fetch
\* Session and the Session of the first batch have been open and closed
C30_Witness ==
    /\ wexec.pc["main"] = "join"
    /\ \E t \in PoolThreads : wexec.pc[t] = "read"
    /\ wexec.analysed = 1
    /\ wexec.sessions = {}


----------------------------------------------------------------------------
(* The candidates of the analysis.                                         *)

\* the recognizer read the image at position i of the batch worker w holds
WasRead(w, i) ==
    /\ i \in 1..Len(wresults[w])
    /\ i \notin wthrew[w].ocr
    /\ CanLoad(fs, wbatch[w][i].path)

\* the fragments the recognizer read in that image, without the white
\* space around them
Fragments(w, i) ==
    LET texts == SceneOf(fs, wbatch[w][i].path).texts
    IN  [k \in 1..Len(texts) |-> Strip(texts[k])]

\* the categories of a fragment
IsNumberFragment(t) ==
    /\ Len(t) > 0
    /\ \A k \in 1..Len(t) : t[k] \in {DigitChars[d] : d \in 1..Len(DigitChars)}
    /\ IntOf(t) \in 1..999
IsTextFragment(t) ==
    /\ ~IsNumberFragment(t)
    /\ Len(t) > 3
    /\ \A k \in 1..Len(t) : ~IsLowerChar(t[k])
    /\ \E k \in 1..Len(t) : IsUpperChar(t[k])

\* C31: the candidates of the text recognizer for an image are, in the
\* order of the fragments read, one number candidate with confidence 0.90
\* for every fragment of digits with a value from 1 to 999, one text
\* candidate with confidence 0.80 for every other fragment longer than 3
\* characters that is upper-case, and nothing for any other fragment
C31_TextConfidenceByCategory ==
    \A w \in WProcs : \A i \in 1..Len(wresults[w]) :
        WasRead(w, i) =>
            LET IsOcr(c) == c.source = "ai_ocr"
                Produces(t) == IsNumberFragment(t) \/ IsTextFragment(t)
                got == SelectSeq(wresults[w][i], IsOcr)
                from == SelectSeq(Fragments(w, i), Produces)
            IN  /\ Len(got) = Len(from)
                /\ \A k \in 1..Len(got) :
                     got[k] = IF IsNumberFragment(from[k])
                              THEN Candidate(from[k], 90, "ai_ocr", "number")
                              ELSE Candidate(from[k], 80, "ai_ocr", "text")

\* a worker holds the results of a batch with an image in which a number in
\* range and a long upper-case word were read, and one in which a number out
\* of range and a word of mixed case were read
C31_Witness ==
    /\ Len(wresults["w1"]) = 2
    /\ \E i, j \in 1..2 :
         /\ WasRead("w1", i) /\ WasRead("w1", j)
         /\ SceneOf(fs, wbatch["w1"][i].path).texts = <<T_STOP, T_7>>
         /\ SceneOf(fs, wbatch["w1"][j].path).texts = <<T_1000, T_Stop>>
         /\ Len(wresults["w1"][j]) = 0
         /\ \E k \in 1..Len(wresults["w1"][i]) : wresults["w1"][i][k].confidence = 90


\* the classifier scored the image at position i of the batch worker w holds
WasScored(w, i) ==
    /\ i \in 1..Len(wresults[w])
    /\ ~wthrew[w].clip
    /\ CanLoad(fs, wbatch[w][i].path)

\* C32: the merged list of an image is the classifier's candidates followed
\* by the recognizer's; for an image the classifier scored, the classifier's
\* part holds one candidate for each label whose probability is strictly
\* above the threshold, with that probability as confidence, and no other,
\* in descending order of confidence
C32_MergedCandidates ==
    \A w \in WProcs : \A i \in 1..Len(wresults[w]) :
        LET merged == wresults[w][i]
            IsClip(c) == c.source = "ai_clip"
            IsOcr(c) == c.source = "ai_ocr"
            clip == SelectSeq(merged, IsClip)
            probs == SceneOf(fs, wbatch[w][i].path).probs
            above == {l \in 1..Len(probs) : probs[l] > ClipThreshold}
        IN  /\ merged = clip \o SelectSeq(merged, IsOcr)
            /\ WasScored(w, i) =>
                 /\ Len(clip) = Cardinality(above)
                 /\ \A l \in above : \E k \in 1..Len(clip) :
                        clip[k] = Candidate(ClipLabels[l], probs[l], "ai_clip",
                                            "auto_classified")
                 /\ \A a, b \in 1..Len(clip) :
                        a < b => clip[a].confidence >= clip[b].confidence

\* a worker holds the merged list of an image the classifier scored: two
\* labels, the second of the configuration first because it scored higher,
\* then the candidate of the recognizer; the other labels are left out
C32_Witness ==
    \E i \in 1..Len(wresults["w1"]) :
        /\ WasScored("w1", i)
        /\ Len(wresults["w1"][i]) = 3
        /\ wresults["w1"][i][1].name = T_dog
        /\ wresults["w1"][i][1].confidence > wresults["w1"][i][2].confidence
        /\ wresults["w1"][i][2].name = T_car
        /\ wresults["w1"][i][3].source = "ai_ocr"

\* C33: a TagLink that is verified has confidence 1.0, whatever worker
\* runs, manual additions, removals and review actions came before
C33_VerifiedHasFullConfidence ==
    \A l \in links : l.is_verified => l.confidence = 100

\* after a worker run and two requests the store holds a link of the
\* classifier that a review approved, a link added by hand and a link of
\* the worker nobody reviewed
C33_Witness ==
    /\ nreq = 2
    /\ \E l \in links : l.source = "ai_clip" /\ l.is_verified /\ l.confidence = 100
    /\ \E l \in links : l.source = "manual" /\ l.is_verified
    /\ \E l \in links : ~l.is_verified /\ l.confidence < 100


\* C34: when a run of process_import has returned, added + skipped + errors
\* is the number of paths the scanner discovered; at any moment the Image
\* table has grown by the run's added since the run began; and every Image
\* appended is neither processed nor deleted when it is created
C34_StatsAccountForEveryPath ==
    /\ [](ipc["i1"] = "done" =>
            istats["i1"].added + istats["i1"].skipped + istats["i1"].errors
                = Len(ipaths["i1"]))
    /\ [](Len(images) - ibase["i1"] = istats["i1"].added)
    /\ [][Len(images') /= Len(images) =>
            /\ images' = Append(images, images'[Len(images')])
            /\ ~images'[Len(images')].is_processed
            /\ ~images'[Len(images')].is_deleted]_vars

\* a run has returned with files added, a duplicate skipped and an
\* unreadable file counted as an error
C34_Witness ==
    /\ ipc["i1"] = "done"
    /\ Len(images) = istats["i1"].added
    /\ istats["i1"].added > 0
    /\ istats["i1"].skipped > 0
    /\ istats["i1"].errors > 0


\* C35: the fetch of a worker run puts no processed image on the worklist;
\* no step of the worker changes the TagLinks of an image that is not on
\* the worklist of its run; and no step of anything turns a processed flag
\* from true to false
C35_ProcessedLeftAlone ==
    /\ [][wruns' /= wruns =>
            \A k \in 1..Len(worklist'["w1"]) :
                ~images[worklist'["w1"][k].id].is_processed]_vars
    /\ [][nreq' = nreq =>
            \A i \in ImageIds \ SeqIds(worklist'["w1"]) :
                LinksOfImage(i)' = LinksOfImage(i)]_vars
    /\ [][\A i \in ImageIds : images[i].is_processed => images'[i].is_processed]_vars

\* the second run has ended: it left out an image the first run had
\* processed and linked, and it processed and linked another one
C35_Witness ==
    /\ wruns = 2
    /\ wpc["w1"] = "done"
    /\ nreq = 0
    /\ \E i \in ImageIds \ SeqIds(worklist["w1"]) :
          images[i].is_processed /\ LinksOfImage(i) /= {}
    /\ \E j \in SeqIds(worklist["w1"]) :
          images[j].is_processed /\ LinksOfImage(j) /= {}


\* the place of an image in the batch worker w is saving
PlaceInBatch(w, i) == CHOOSE k \in 1..Len(wbatch[w]) : wbatch[w][k].id = i

\* a step that commits is_processed = True for image i
CommitsProcessed(i) == ~images[i].is_processed /\ images'[i].is_processed

\* the candidate has a TagLink in the set S of links
IsLinked(S, i, tag_item) ==
    \E l \in S : l.image_id = i /\ tags[l.tag_id].name = tag_item.name

\* C36: is_processed = True is committed for an image only after every
\* candidate of its analysis was found linked or had a link added.  The
\* flag is committed from the session, together with the links the session
\* holds; the session holds the flag of an image only when the save loop
\* has moved past the image; each candidate the loop moves past is linked
\* in the store or in the session; and, as long as no request removed a
\* link, every candidate of the image is linked in the store at the commit
C36_ProcessedOnlyWithLinks ==
    /\ [][\A i \in ImageIds : CommitsProcessed(i) =>
            /\ i \in wpending["w1"].processed
            /\ wpending["w1"].links \subseteq links']_vars
    /\ [](\A i \in wpending["w1"].processed :
            /\ i \in SeqIds(wbatch["w1"])
            /\ PlaceInBatch("w1", i) < wpos["w1"][1])
    /\ [][(wpc["w1"] \in {"save", "link"} /\ wpos'["w1"] /= wpos["w1"]
            /\ wstart'["w1"] = wstart["w1"]) =>
            IsLinked(links \cup wpending'["w1"].links,
                     wbatch["w1"][wpos["w1"][1]].id,
                     wresults["w1"][wpos["w1"][1]][wpos["w1"][2]])]_vars
    /\ [][\A i \in ImageIds : (CommitsProcessed(i) /\ nreq' = 0) =>
            \A k \in 1..Len(wresults["w1"][PlaceInBatch("w1", i)]) :
                IsLinked(links', i, wresults["w1"][PlaceInBatch("w1", i)][k])]_vars

\* the first batch failed partway and left its first image processed; the
\* next batch has been committed, and its image is processed with its
\* candidate linked
C36_Witness ==
    /\ wfailed["w1"] /= {}
    /\ wpc["w1"] = "done"
    /\ \E i \in wfailed["w1"] : images[i].is_processed
    /\ \E i \in ImageIds \ wfailed["w1"] :
          /\ images[i].is_processed
          /\ Len(wresults["w1"]) = 1 /\ Len(wresults["w1"][1]) = 1
          /\ wbatch["w1"][1].id = i
          /\ IsLinked(links, i, wresults["w1"][1][1])


----------------------------------------------------------------------------
(* Two worker processes started one shortly after the other (routers/ai.py *)
(* spawns a process per request and keeps no record of a running one).     *)

\* three pictures: the second and the third show the same words, so the
\* two batches of a run need the same new Tags
SharedGallery == <<4, 3, 7>>

InitOverlap ==
    /\ fs = [i \in 1..Len(SharedGallery) |->
               FileEntry(PicPath(i), FileData(SharedGallery[i], TRUE))]
    /\ images = [i \in 1..Len(SharedGallery) |->
                   ImageRow(1, PicPath(i), Sha256(SharedGallery[i]))]
    /\ albums = <<AlbumRow(N_Trip, slugify(N_Trip), <<N_in, N_Trip>>)>>
    /\ tags = <<>>
    /\ links = {}
    /\ InitIngestion
    /\ InitWorkers
    /\ uploads = <<>>

\* the analysis of a batch in which neither model fails
AnalyzeBatchOk(w) == Analyze(w) /\ wthrew'[w] = NoThrow

NextOverlap ==
    \E w \in WProcs :
        \/ Fetch(w)
        \/ AnalyzeBatchOk(w)
        \/ FindTag(w)
        \/ CreateTag(w)
        \/ FindLink(w)
        \/ CommitBatch(w)

SpecOverlap == InitOverlap /\ [][NextOverlap]_vars

\* both processes have run over the same worklist and have ended
BothRanTheSame ==
    /\ \A w \in WProcs : wpc[w] = "done"
    /\ worklist["w1"] = worklist["w2"]
    /\ Len(worklist["w1"]) > 0

\* C37: after two overlapping runs over the same worklist no two Tags have
\* one name, no two TagLinks have one (image, tag) pair, and every image of
\* the worklist is processed
C37_OverlappingRunsProcessAll ==
    BothRanTheSame =>
        /\ \A s, t \in TagIds : tags[s].name = tags[t].name => s = t
        /\ \A l, m \in links :
              (l.image_id = m.image_id /\ l.tag_id = m.tag_id) => l = m
        /\ \A i \in SeqIds(worklist["w1"]) : images[i].is_processed

\* both runs have ended over the same three images, each has lost a batch
\* to the other, and every image is processed and linked
C37_Witness ==
    /\ BothRanTheSame
    /\ Len(worklist["w1"]) = 3
    /\ \A w \in WProcs : wfailed[w] /= {}
    /\ \A i \in ImageIds : images[i].is_processed /\ LinksOfImage(i) /= {}


----------------------------------------------------------------------------
(* A tag name that occurs twice among the candidates of one image.         *)

\* candidate k of the list repeats the name of an earlier candidate
IsRepeat(tag_items, k) == \E j \in 1..(k - 1) : tag_items[j].name = tag_items[k].name
FirstNamed(tag_items, name) ==
    tag_items[CHOOSE j \in 1..Len(tag_items) :
                /\ tag_items[j].name = name
                /\ \A h \in 1..(j - 1) : tag_items[h].name /= name]

\* the image at place b of the batch has, for each name among its
\* candidates, exactly one TagLink, unverified, with the confidence and the
\* source of the first candidate of that name
LinkedOncePerName(b) ==
    LET i == wbatch["w1"][b].id
        tag_items == wresults["w1"][b]
    IN  \A k \in 1..Len(tag_items) :
            LET first == FirstNamed(tag_items, tag_items[k].name)
            IN  {l \in LinksOfImage(i) : tags[l.tag_id].name = tag_items[k].name}
                = {LinkRow(i, First(TagsWithName(first.name)),
                           first.confidence, first.source, FALSE)}

\* C38: where no request on tags has been served before or during the run,
\* the worker adds no link when it handles a candidate whose name an
\* earlier candidate of the same image had, a batch fails only when the
\* construction of a model raised, and an image processed by the batch has
\* one TagLink per candidate name, the first candidate's
C38_RepeatedNameLinkedOnce ==
    /\ [][(nreq' = 0 /\ wpc["w1"] \in {"save", "link"} /\ wpos'["w1"] /= wpos["w1"]
            /\ wstart'["w1"] = wstart["w1"]
            /\ IsRepeat(wresults["w1"][wpos["w1"][1]], wpos["w1"][2]))
          => wpending'["w1"].links = wpending["w1"].links]_vars
    /\ [][(nreq' = 0 /\ ~(wfailed'["w1"] \subseteq wfailed["w1"]))
            => wthrew'["w1"].init]_vars
    /\ [](nreq = 0 =>
            \A b \in 1..Len(wresults["w1"]) :
                images[wbatch["w1"][b].id].is_processed => LinkedOncePerName(b))

\* C38 as stated, for runs with requests before or during them as well
C38_AsStated ==
    \A b \in 1..Len(wresults["w1"]) :
        (/\ images[wbatch["w1"][b].id].is_processed
         /\ wbatch["w1"][b].id \notin wfailed["w1"]
         /\ \E k \in 1..Len(wresults["w1"][b]) : IsRepeat(wresults["w1"][b], k))
        => LinkedOncePerName(b)

\* the batch is committed: the image in which the classifier and the
\* recognizer both found STOP has one link to that Tag, the classifier's
C38_Witness ==
    /\ nreq = 0
    /\ wfailed["w1"] = {}
    /\ \E b \in 1..Len(wresults["w1"]) :
          LET i == wbatch["w1"][b].id
              tag_items == wresults["w1"][b]
          IN  /\ images[i].is_processed
              /\ \E k \in 1..Len(tag_items) : IsRepeat(tag_items, k)
              /\ \E l \in LinksOfImage(i) :
                    /\ tags[l.tag_id].name = T_STOP
                    /\ l.source = "ai_clip"
              /\ Cardinality({l \in LinksOfImage(i) : tags[l.tag_id].name = T_STOP}) = 1

----------------------------------------------------------------------------
(* routers/upload.py: the direct upload, POST /upload/                     *)

MaxUploads == 2
ThumbnailSide == 400

IMAGE_EXTENSIONS ==
    { <<".", "j", "p", "g">>, <<".", "j", "p", "e", "g">>,
      <<".", "p", "n", "g">>, <<".", "w", "e", "b", "p">> }

N_uploads == <<"u", "p", "l", "o", "a", "d", "s">>
N_Web_Uploads == <<"W", "e", "b", " ", "U", "p", "l", "o", "a", "d", "s">>
N_web_uploads == <<"w", "e", "b", "-", "u", "p", "l", "o", "a", "d", "s">>
UPLOAD_DIR == <<N_data, N_uploads>>

\* The pictures a client uploads, by the identifier of their bytes: the
\* pixels they decode to and the size of the picture.  Pictures 4 and 8 are
\* two files of the same pixels; the bytes of CorruptBytes decode to nothing.
UploadPictures ==
    <<[pixels |-> 1, size |-> <<300, 200>>],
      [pixels |-> 2, size |-> <<400, 400>>],
      [pixels |-> 3, size |-> <<401, 400>>],
      [pixels |-> 4, size |-> <<800, 600>>],
      [pixels |-> 5, size |-> <<600, 800>>],
      [pixels |-> 6, size |-> <<1200, 400>>],
      [pixels |-> 7, size |-> <<4000, 3>>],
      [pixels |-> 4, size |-> <<800, 600>>]>>
UploadBytes == DOMAIN UploadPictures \cup CorruptBytes
UploadNames == {N_a_jpg, N_c_JPG, N_n_txt}
PictureSize(bytes) == UploadPictures[bytes].size

\* lines 104-113: img.save(output_buffer, format="WEBP", quality=90); the
\* encoding is fixed by the pixels, whatever file they came in
WebpContent(bytes) == 10 + UploadPictures[bytes].pixels

\* Pillow's Image.thumbnail(size), called at line 134: a picture that fits
\* the box is left as it is; a larger one is resized IN PLACE to the largest
\* size of its aspect ratio inside the box, each side rounded to the
\* neighbouring integer that keeps the ratio best and never below 1
Distance(a, b) == IF a >= b THEN a - b ELSE b - a
round_aspect_x(w, h, y) ==
    LET lo == (y * w) \div h
        hi == IF lo * h = y * w THEN lo ELSE lo + 1
        n == IF Distance(w * y, lo * h) <= Distance(w * y, hi * h) THEN lo ELSE hi
    IN  IF n >= 1 THEN n ELSE 1
round_aspect_y(w, h, x) ==
    LET lo == (x * h) \div w
        hi == IF lo * w = x * h THEN lo ELSE lo + 1
        n == IF lo = 0 THEN lo
             ELSE IF Distance(w * lo, x * h) * hi <= Distance(w * hi, x * h) * lo
                  THEN lo ELSE hi
    IN  IF n >= 1 THEN n ELSE 1
thumbnail(img, size) ==
    LET w == img[1]
        h == img[2]
        x == size[1]
        y == size[2]
    IN  IF x >= w /\ y >= h THEN img
        ELSE IF x * h >= y * w THEN <<round_aspect_x(w, h, y), y>>
        ELSE <<x, round_aspect_y(w, h, x)>>

UploadPath(h) == Append(UPLOAD_DIR, HexDigest(h) \o <<".", "w", "e", "b", "p">>)
UploadCall(filename, bytes, status, id, width, height) ==
    [filename |-> filename, bytes |-> bytes, status |-> status, id |-> id,
     width |-> width, height |-> height]

\* process_uploaded_image, lines 91-179, for one file of the request
\* (upload_images, lines 180-218, calls it for each file).  img is the one
\* PIL object of the call: line 134 shrinks it, line 138 reads its size.
process_uploaded_image(filename, bytes) ==
    /\ Len(uploads) < MaxUploads
    /\ IF Lower(SplitExt(filename)) \notin IMAGE_EXTENSIONS
       THEN /\ uploads' = Append(uploads, UploadCall(filename, bytes, "none", 0, 0, 0))
            /\ UNCHANGED <<fs, albums, images>>
       ELSE IF bytes \in CorruptBytes
       THEN /\ uploads' = Append(uploads, UploadCall(filename, bytes, "error", 0, 0, 0))
            /\ UNCHANGED <<fs, albums, images>>
       ELSE LET img == PictureSize(bytes)
                file_hash == Sha256(WebpContent(bytes))
                existing == {i \in ImageIds : images[i].file_hash = file_hash}
            IN  IF existing /= {}
                THEN /\ uploads' = Append(uploads, UploadCall(filename, bytes, "skipped", 0, 0, 0))
                     /\ UNCHANGED <<fs, albums, images>>
                ELSE LET save_path == UploadPath(file_hash)
                         thumb_path == ThumbPath(file_hash)
                         shrunk == thumbnail(img, <<ThumbnailSide, ThumbnailSide>>)
                         width == shrunk[1]
                         height == shrunk[2]
                         found == AlbumsWithSlug(N_web_uploads)
                         album_id == IF found = {} THEN Len(albums) + 1
                                     ELSE CHOOSE a \in found : TRUE
                     IN  /\ ~DatabaseBusy
                         /\ fs' = fs \o <<FileEntry(save_path, FileData(WebpContent(bytes), TRUE)),
                                          FileEntry(thumb_path, FileData(0, TRUE))>>
                         /\ albums' = IF found = {}
                                      THEN Append(albums, AlbumRow(N_Web_Uploads, N_web_uploads, UPLOAD_DIR))
                                      ELSE albums
                         /\ images' = Append(images, ImageRow(album_id, save_path, file_hash))
                         /\ uploads' = Append(uploads, UploadCall(filename, bytes, "success",
                                                                  Len(images) + 1, width, height))
    /\ UNCHANGED <<tags, links, ivars, wvars, rvars>>

upload_images == \E filename \in UploadNames, bytes \in UploadBytes :
                     process_uploaded_image(filename, bytes)

InitUpload ==
    /\ fs = <<>>
    /\ albums = <<>>
    /\ images = <<>>
    /\ tags = <<>>
    /\ links = {}
    /\ InitIngestion
    /\ InitWorkers
    /\ uploads = <<>>
NextUpload == upload_images
SpecUpload == InitUpload /\ [][NextUpload]_vars

\* C39: the width and height stored in the Image record of a directly
\* uploaded image are the width and height of the uploaded picture, also
\* when the picture is larger than the thumbnail box of 400 by 400
C39_StoredSizeIsUploadedSize ==
    \A k \in 1..Len(uploads) :
        uploads[k].status = "success" =>
            <<uploads[k].width, uploads[k].height>> = PictureSize(uploads[k].bytes)

====
